---- MODULE Spec2Model ----
(***************************************************************************)
(* Model of the Chim presentation engine (src/unnamed/part_002, the        *)
(* current revision of chim.cpp, with src/chim.hpp and src/main.cpp).      *)
(*                                                                         *)
(* One control thread (main -> Init -> Run -> Cleanup) issues Vulkan       *)
(* calls; the GPU retires graphics-queue submissions and present-queue     *)
(* requests asynchronously.  The control thread's position is pc; the      *)
(* blocking calls (vkWaitForFences, vkAcquireNextImageKHR,                 *)
(* vkDeviceWaitIdle) are guards on GPU state.                              *)
(*                                                                         *)
(* Device calls whose VkResult the code discards (vkWaitForFences,         *)
(* vkResetFences, vkResetCommandBuffer, vkDeviceWaitIdle,                  *)
(* vkGetSwapchainImagesKHR) are modelled as succeeding.                    *)
(***************************************************************************)
EXTENDS Integers, Sequences, FiniteSets, TLC

VARIABLES
    pc,                          \* position of the control thread
    ret,                         \* where the running RecreateSwapChain returns to
    keep_window_open_,           \* chim.hpp:134
    frame_buffer_resized_,       \* chim.hpp:169
    resize_requested_,           \* chim.hpp:140
    current_frame_,              \* chim.hpp:136
    swap_chain_,                 \* chim.hpp:152
    swap_chain_images_,          \* chim.hpp:153
    swap_chain_image_format_,    \* chim.hpp:154
    swap_chain_extent_,          \* chim.hpp:155
    swap_chain_image_views_,     \* chim.hpp:156
    swap_chain_frame_buffers_,   \* chim.hpp:157
    render_pass_format,          \* attachment format render_pass_ was created with
    command_buffers_,            \* chim.hpp:165, what each buffer has recorded
    image_available_semaphores_, \* chim.hpp:166, signals not yet consumed
    render_finished_semaphores_, \* chim.hpp:167, signals not yet consumed
    in_flight_fences_,           \* chim.hpp:168, TRUE = signaled
    result,                      \* DrawFrame local: VkResult result
    imageIndex,                  \* DrawFrame local: uint32_t imageIndex
    gfxQueue,                    \* graphics_queue_: submissions not yet retired
    presentQueue,                \* present_queue_: present requests not yet retired
    acquired,                    \* images acquired by the application, not yet presented
    live,                        \* handles created and not destroyed
    destroyedTwice,              \* handles passed to vkDestroy* while not live
    gen,                         \* number of swapchains created so far
    frame,                       \* history of the current / latest DrawFrame call
    physical_device_,            \* chim.hpp:146, index into platform.devices, 0 = VK_NULL_HANDLE
    platform,                    \* what the platform reports to the startup queries
    device_error,                \* the device call that returned a failure nobody tested
    teardown,                    \* what Cleanup has destroyed, in the order of its calls
    createInfo,                  \* the VkSwapchainCreateInfoKHR last passed to vkCreateSwapchainKHR
    framebufferInfo              \* the VkFramebufferCreateInfo last passed to vkCreateFramebuffer

vars == <<pc, ret, keep_window_open_, frame_buffer_resized_, resize_requested_,
          current_frame_, swap_chain_, swap_chain_images_,
          swap_chain_image_format_, swap_chain_extent_, swap_chain_image_views_,
          swap_chain_frame_buffers_, render_pass_format, command_buffers_,
          image_available_semaphores_, render_finished_semaphores_,
          in_flight_fences_, result, imageIndex, gfxQueue, presentQueue,
          acquired, live, destroyedTwice, gen, frame,
          physical_device_, platform, device_error, teardown, createInfo,
          framebufferInfo>>

\* ------------------------------------------------------------------ bounds
MaxGen == 2            \* swapchains created after the first one
MaxMinImageCount == 2  \* largest capabilities.minImageCount the surface reports
MaxSize == 2           \* window / surface sizes are 1 x 1 .. MaxSize x MaxSize
MaxDevices == 2
MaxListLen == 2        \* physical devices vkEnumeratePhysicalDevices reports

\* --------------------------------------------------------------- constants
MAX_FRAMES_IN_FLIGHT == 2
\* std::numeric_limits<uint32_t>::max(), the undefined-extent sentinel.  Only
\* equality with it is tested and every real size is far below it; the
\* largest 32-bit signed integer stands for it here.
UINT32_MAX == 2147483647

Slots == 0 .. (MAX_FRAMES_IN_FLIGHT - 1)

Null == <<"null", 0, 0>>

VK_SUCCESS == "VK_SUCCESS"
VK_SUBOPTIMAL_KHR == "VK_SUBOPTIMAL_KHR"
VK_ERROR_OUT_OF_DATE_KHR == "VK_ERROR_OUT_OF_DATE_KHR"
VK_ERROR_DEVICE_LOST == "VK_ERROR_DEVICE_LOST"
VK_ERROR_SURFACE_LOST_KHR == "VK_ERROR_SURFACE_LOST_KHR"
NoResult == "unset"

Staleness == {VK_ERROR_OUT_OF_DATE_KHR, VK_SUBOPTIMAL_KHR}
OtherFailures == {VK_ERROR_DEVICE_LOST, VK_ERROR_SURFACE_LOST_KHR}
AcquireResults == {VK_SUCCESS} \cup Staleness \cup OtherFailures
PresentResults == {VK_SUCCESS} \cup Staleness \cup OtherFailures

\* ------------------------------------------------------------------ values
Extent(w, h) == [width |-> w, height |-> h]
WindowSizes == {Extent(d, d) : d \in 1 .. MaxSize}
UndefinedExtent == Extent(UINT32_MAX, UINT32_MAX)
\* The window Init creates (window_width_ x window_height_, chim.hpp:132-133),
\* on the model's scale of sizes.
InitialWindowSize == Extent(MaxSize, MaxSize)

B8G8R8A8_SRGB == [format |-> "VK_FORMAT_B8G8R8A8_SRGB", colorSpace |-> "VK_COLOR_SPACE_SRGB_NONLINEAR_KHR"]
R8G8B8A8_UNORM == [format |-> "VK_FORMAT_R8G8B8A8_UNORM", colorSpace |-> "VK_COLOR_SPACE_SRGB_NONLINEAR_KHR"]
VK_PRESENT_MODE_FIFO_KHR == "VK_PRESENT_MODE_FIFO_KHR"
VK_PRESENT_MODE_MAILBOX_KHR == "VK_PRESENT_MODE_MAILBOX_KHR"
VK_PRESENT_MODE_IMMEDIATE_KHR == "VK_PRESENT_MODE_IMMEDIATE_KHR"
VK_SHARING_MODE_EXCLUSIVE == "VK_SHARING_MODE_EXCLUSIVE"
VK_SHARING_MODE_CONCURRENT == "VK_SHARING_MODE_CONCURRENT"
FormatLists == {<<R8G8B8A8_UNORM, B8G8R8A8_SRGB>>}

\* What vkGetPhysicalDeviceSurfaceCapabilitiesKHR / ...FormatsKHR may report.
SurfaceSupport ==
    [minImageCount : 1 .. MaxMinImageCount,
     maxImageCount : {0, MaxMinImageCount},
     currentExtent : WindowSizes \cup {UndefinedExtent},
     minImageExtent : {Extent(1, 1)},
     maxImageExtent : {Extent(MaxSize, MaxSize)},
     formats : FormatLists,
     presentModes : {<<VK_PRESENT_MODE_FIFO_KHR>>}]

ValidSupport(s) == s.maxImageCount = 0 \/ s.minImageCount <= s.maxImageCount

\* ------------------------------------------------------ physical devices
\* What the Vulkan queries report about one physical device.  A uint32_t is
\* held as the int32_t with the same bits, so 0 .. 2^31 - 1 stand for
\* themselves.
DISCRETE_GPU == "VK_PHYSICAL_DEVICE_TYPE_DISCRETE_GPU"
INTEGRATED_GPU == "VK_PHYSICAL_DEVICE_TYPE_INTEGRATED_GPU"
VK_KHR_SWAPCHAIN_EXTENSION_NAME == "VK_KHR_swapchain"
device_extensions_ == {VK_KHR_SWAPCHAIN_EXTENSION_NAME}
INT32_MAX == 2147483647
INT32_MIN == (-2147483647) - 1

Family(graphics, present) == [graphics |-> graphics, present |-> present]
PhysicalDevice(type, dim, geometry, families, extensions, formats, modes) ==
    [deviceType |-> type, maxImageDimension2D |-> dim, geometryShader |-> geometry,
     queueFamilies |-> families, extensions |-> extensions, formats |-> formats,
     presentModes |-> modes]

\* Devices that differ in what the score reads, everything else in order.
RankedDevices ==
    {PhysicalDevice(t, d, g, <<Family(TRUE, TRUE)>>, device_extensions_,
                    <<B8G8R8A8_SRGB>>, <<VK_PRESENT_MODE_FIFO_KHR>>) :
        t \in {DISCRETE_GPU, INTEGRATED_GPU}, d \in {4096, 8192, INT32_MAX}, g \in BOOLEAN}
\* Discrete devices with geometry shaders that differ in what
\* IsDeviceSuitable reads.
QueriedDevices ==
    {PhysicalDevice(DISCRETE_GPU, 4096, TRUE, f, e, sf, pm) :
        f \in {<<>>, <<Family(TRUE, FALSE)>>, <<Family(FALSE, TRUE)>>,
               <<Family(TRUE, FALSE), Family(FALSE, TRUE)>>, <<Family(TRUE, TRUE)>>},
        e \in {{}, device_extensions_},
        sf \in {<<>>, <<B8G8R8A8_SRGB>>},
        pm \in {<<>>, <<VK_PRESENT_MODE_FIFO_KHR>>}}
DeviceSpace == RankedDevices \cup QueriedDevices

\* 32-bit addition of a small non-negative int and a uint32_t, stored in an
\* int (score += maxImageDimension2D, line 497).
AddInt32(a, b) ==
    IF b > INT32_MAX - a THEN ((b - INT32_MAX) - 1) + (a + INT32_MIN) ELSE a + b

\* Chim::FindQueueFamilies: the indices after the loop; -1 is std::nullopt.
RECURSIVE FindQueueFamiliesFrom(_, _, _)
FindQueueFamiliesFrom(queueFamilies, i, indices) ==
    IF i > Len(queueFamilies) THEN indices
    ELSE LET found == [graphicsFamily |-> IF queueFamilies[i].graphics THEN i - 1
                                          ELSE indices.graphicsFamily,
                       presentFamily |-> IF queueFamilies[i].present THEN i - 1
                                         ELSE indices.presentFamily]
         IN  IF found.graphicsFamily # -1 /\ found.presentFamily # -1
             THEN found
             ELSE FindQueueFamiliesFrom(queueFamilies, i + 1, found)

FindQueueFamilies(device) ==
    FindQueueFamiliesFrom(device.queueFamilies, 1, [graphicsFamily |-> -1, presentFamily |-> -1])

isComplete(indices) == indices.graphicsFamily # -1 /\ indices.presentFamily # -1

\* Chim::CheckDeviceExtensionSupport: every required name is erased.
CheckDeviceExtensionSupport(device) == device_extensions_ \ device.extensions = {}

\* IsDeviceSuitable without the test on surface formats and present modes.
IsDeviceSuitableAnySwapChain(device) ==
    LET indices == FindQueueFamilies(device)
        extensionsSupported == CheckDeviceExtensionSupport(device)
    IN  isComplete(indices) /\ extensionsSupported

\* Chim::IsDeviceSuitable.
IsDeviceSuitable(device) ==
    LET indices == FindQueueFamilies(device)
        extensionsSupported == CheckDeviceExtensionSupport(device)
        swapChainAdequate == IF extensionsSupported
                             THEN device.formats # <<>> /\ device.presentModes # <<>>
                             ELSE FALSE
    IN  isComplete(indices) /\ extensionsSupported /\ swapChainAdequate

\* RateDeviceSuitability without the geometry-shader test.
RateDeviceSuitabilityAnyFeatures(device) ==
    IF ~IsDeviceSuitable(device) THEN 0
    ELSE LET bonus == IF device.deviceType = DISCRETE_GPU THEN 1000 ELSE 0
         IN  AddInt32(bonus, device.maxImageDimension2D)

\* Chim::RateDeviceSuitability.
RateDeviceSuitability(device) ==
    IF ~IsDeviceSuitable(device) THEN 0
    ELSE LET bonus == IF device.deviceType = DISCRETE_GPU THEN 1000 ELSE 0
             score == AddInt32(bonus, device.maxImageDimension2D)
         IN  IF ~device.geometryShader THEN 0 ELSE score

\* An insert that puts the pair before the entries of equal key.
InsertCandidateBeforeEqual(candidates, pair) ==
    LET k == Cardinality({j \in 1 .. Len(candidates) : candidates[j].score < pair.score})
    IN  SubSeq(candidates, 1, k) \o <<pair>> \o SubSeq(candidates, k + 1, Len(candidates))

\* std::multimap::insert: after every entry whose key is not greater.
InsertCandidate(candidates, pair) ==
    LET k == Cardinality({j \in 1 .. Len(candidates) : candidates[j].score <= pair.score})
    IN  SubSeq(candidates, 1, k) \o <<pair>> \o SubSeq(candidates, k + 1, Len(candidates))

\* The multimap of Chim::PickPhysicalDevice after the loop over devices[i ..].
RECURSIVE RateAll(_, _, _)
RateAll(devices, i, candidates) ==
    IF i > Len(devices) THEN candidates
    ELSE RateAll(devices, i + 1,
                 InsertCandidate(candidates,
                                 [score |-> RateDeviceSuitability(devices[i]), device |-> i]))

\* PickPhysicalDevice reading begin() of the multimap instead of rbegin().
PickPhysicalDeviceFirstCandidate(devices) ==
    IF Len(devices) = 0 THEN [selected |-> 0, thrown |-> TRUE]
    ELSE LET candidates == RateAll(devices, 1, <<>>)
             best == candidates[1]
         IN  IF best.score > 0
             THEN [selected |-> best.device, thrown |-> FALSE]
             ELSE [selected |-> 0, thrown |-> TRUE]

\* Chim::PickPhysicalDevice: the device selected (its place in the
\* enumeration, 0 = none) and whether the function threw.
PickPhysicalDevice(devices) ==
    IF Len(devices) = 0 THEN [selected |-> 0, thrown |-> TRUE]
    ELSE LET candidates == RateAll(devices, 1, <<>>)
             best == candidates[Len(candidates)]
         IN  IF best.score > 0
             THEN [selected |-> best.device, thrown |-> FALSE]
             ELSE [selected |-> 0, thrown |-> TRUE]

\* The platform of the frame-loop specifications at startup: the frame loop
\* draws the surface capabilities afresh at every build.
DefaultPlatform ==
    [devices |-> <<PhysicalDevice(DISCRETE_GPU, 4096, TRUE, <<Family(TRUE, TRUE)>>,
                                  device_extensions_, <<B8G8R8A8_SRGB>>,
                                  <<VK_PRESENT_MODE_FIFO_KHR>>)>>,
     capabilities |-> [minImageCount |-> 1, maxImageCount |-> 0,
                       currentExtent |-> UndefinedExtent,
                       minImageExtent |-> Extent(1, 1),
                       maxImageExtent |-> Extent(MaxSize, MaxSize),
                       formats |-> <<R8G8B8A8_UNORM, B8G8R8A8_SRGB>>,
                       presentModes |-> <<VK_PRESENT_MODE_FIFO_KHR>>],
     drawable |-> InitialWindowSize,
     windowSize |-> InitialWindowSize,
     formatLists |-> FormatLists]

Handle(kind, g, i) == <<kind, g, i>>

Range(seq) == {seq[i] : i \in 1 .. Len(seq)}

Min(a, b) == IF a < b THEN a ELSE b
Max(a, b) == IF a < b THEN b ELSE a
Clamp(v, lo, hi) == IF v < lo THEN lo ELSE IF hi < v THEN hi ELSE v

\* ------------------------------------------------- swapchain construction
\* Chim::ChooseSwapSurfaceFormat: the first B8G8R8A8_SRGB / SRGB_NONLINEAR
\* entry, otherwise availableFormats[0].
\* ChooseSwapSurfaceFormat without the search for the preferred format.
ChooseSwapSurfaceFormatFirstEntry(availableFormats) == availableFormats[1]

RECURSIVE FirstPreferredFormat(_, _)
FirstPreferredFormat(availableFormats, i) ==
    IF i > Len(availableFormats) THEN availableFormats[1]
    ELSE IF /\ availableFormats[i].format = "VK_FORMAT_B8G8R8A8_SRGB"
            /\ availableFormats[i].colorSpace = "VK_COLOR_SPACE_SRGB_NONLINEAR_KHR"
         THEN availableFormats[i]
         ELSE FirstPreferredFormat(availableFormats, i + 1)

ChooseSwapSurfaceFormat(availableFormats) == FirstPreferredFormat(availableFormats, 1)

\* ChooseSwapExtent taking the drawable size as it is.
ChooseSwapExtentUnclamped(capabilities, drawable) ==
    IF capabilities.currentExtent.width # UINT32_MAX
    THEN capabilities.currentExtent
    ELSE drawable

\* Chim::ChooseSwapExtent; drawable is what SDL_Vulkan_GetDrawableSize reports.
ChooseSwapExtent(capabilities, drawable) ==
    IF capabilities.currentExtent.width # UINT32_MAX
    THEN capabilities.currentExtent
    ELSE Extent(Clamp(drawable.width, capabilities.minImageExtent.width,
                      capabilities.maxImageExtent.width),
                Clamp(drawable.height, capabilities.minImageExtent.height,
                      capabilities.maxImageExtent.height))

\* CreateSwapChain without the test against maxImageCount.
ChooseImageCountUnclamped(capabilities) == capabilities.minImageCount + 1

\* Chim::CreateSwapChain, lines 760-764: createInfo.minImageCount.
ChooseImageCount(capabilities) ==
    LET imageCount == capabilities.minImageCount + 1
    IN  IF capabilities.maxImageCount > 0 /\ imageCount > capabilities.maxImageCount
        THEN capabilities.maxImageCount
        ELSE imageCount

\* std::vector::resize: keeps the leading entries, pads with null handles.
Resize(vec, n) == [i \in 1 .. n |-> IF i <= Len(vec) THEN vec[i] ELSE Null]

\* Where a construction step may fail (the creation call returns an error
\* and the function throws).  at is the loop index of the failing call.
NoFailure == [stage |-> "none", at |-> 0]
ChainFailures(n) ==
    {NoFailure, [stage |-> "swapchain", at |-> 0]}
        \cup {[stage |-> "view", at |-> k] : k \in 1 .. n}
        \cup {[stage |-> "framebuffer", at |-> k] : k \in 1 .. n}

\* ChooseSwapPresentMode returning the fallback whatever the list holds.
ChooseSwapPresentModeAlwaysFifo(availablePresentModes) == VK_PRESENT_MODE_FIFO_KHR

\* Chim::ChooseSwapPresentMode (lines 669-679).
ChooseSwapPresentMode(availablePresentModes) ==
    IF \E k \in 1 .. Len(availablePresentModes) :
            availablePresentModes[k] = VK_PRESENT_MODE_MAILBOX_KHR
    THEN VK_PRESENT_MODE_MAILBOX_KHR
    ELSE VK_PRESENT_MODE_FIFO_KHR

\* CreateSwapChain declaring every chain exclusive.
ChooseSharingModeAlwaysExclusive(indices) == VK_SHARING_MODE_EXCLUSIVE

\* Lines 777-789 of CreateSwapChain: imageSharingMode.
ChooseSharingMode(indices) ==
    IF indices.graphicsFamily # indices.presentFamily
    THEN VK_SHARING_MODE_CONCURRENT
    ELSE VK_SHARING_MODE_EXCLUSIVE

\* createInfo before any call of vkCreateSwapchainKHR.
NoCreateInfo ==
    [minImageCount |-> 0, imageFormat |-> "VK_FORMAT_UNDEFINED", imageColorSpace |-> NoResult,
     imageExtent |-> Extent(0, 0), imageSharingMode |-> NoResult,
     queueFamilyIndices |-> <<>>, presentMode |-> NoResult]

\* CreateSwapChain without the store of line 808: swap_chain_extent_ keeps
\* the value it had on entry.
CreateSwapChainKeepsExtent(g, support, drawable, indices, fail, sc, imgs, fmt, ext) ==
    LET surfaceFormat == ChooseSwapSurfaceFormat(support.formats)
        imageCount == ChooseImageCount(support)
        info == [minImageCount |-> imageCount,
                 imageFormat |-> surfaceFormat.format,
                 imageColorSpace |-> surfaceFormat.colorSpace,
                 imageExtent |-> ChooseSwapExtent(support, drawable),
                 imageSharingMode |-> ChooseSharingMode(indices),
                 queueFamilyIndices |->
                     IF ChooseSharingMode(indices) = VK_SHARING_MODE_CONCURRENT
                     THEN <<indices.graphicsFamily, indices.presentFamily>>
                     ELSE <<>>,
                 presentMode |-> ChooseSwapPresentMode(support.presentModes)]
        h == Handle("swapchain", g, 0)
    IN  IF fail.stage = "swapchain"
        THEN [swap_chain |-> sc, images |-> imgs, format |-> fmt, extent |-> ext,
              created |-> {}, createInfo |-> info, thrown |-> TRUE]
        ELSE [swap_chain |-> h,
              images |-> [i \in 1 .. imageCount |-> Handle("image", g, i)],
              format |-> surfaceFormat.format,
              extent |-> ext,
              created |-> {h} \cup {Handle("image", g, i) : i \in 1 .. imageCount},
              createInfo |-> info,
              thrown |-> FALSE]

\* Chim::CreateSwapChain as a function of the state it reads: the chain
\* fields after the call, the handles it created, the createInfo it passed,
\* and whether it threw.  sc, imgs, fmt, ext are swap_chain_,
\* swap_chain_images_, swap_chain_image_format_, swap_chain_extent_ on entry;
\* indices is FindQueueFamilies(physical_device_).
CreateSwapChain(g, support, drawable, indices, fail, sc, imgs, fmt, ext) ==
    LET surfaceFormat == ChooseSwapSurfaceFormat(support.formats)
        presentMode == ChooseSwapPresentMode(support.presentModes)
        extent == ChooseSwapExtent(support, drawable)
        imageCount == ChooseImageCount(support)
        info == [minImageCount |-> imageCount,
                 imageFormat |-> surfaceFormat.format,
                 imageColorSpace |-> surfaceFormat.colorSpace,
                 imageExtent |-> extent,
                 imageSharingMode |-> ChooseSharingMode(indices),
                 queueFamilyIndices |->
                     IF ChooseSharingMode(indices) = VK_SHARING_MODE_CONCURRENT
                     THEN <<indices.graphicsFamily, indices.presentFamily>>
                     ELSE <<>>,
                 presentMode |-> presentMode]
        h == Handle("swapchain", g, 0)
    IN  IF fail.stage = "swapchain"
        THEN [swap_chain |-> sc, images |-> imgs, format |-> fmt, extent |-> ext,
              created |-> {}, createInfo |-> info, thrown |-> TRUE]
        ELSE [swap_chain |-> h,
              images |-> [i \in 1 .. imageCount |-> Handle("image", g, i)],
              format |-> surfaceFormat.format,
              extent |-> extent,
              created |-> {h} \cup {Handle("image", g, i) : i \in 1 .. imageCount},
              createInfo |-> info,
              thrown |-> FALSE]

\* CreateImageViews growing swap_chain_image_views_ but never shrinking it.
CreateImageViewsNeverShrinks(g, images, fmt, views, fail) ==
    LET n == Len(images)
        m == Max(n, Len(views))
        stop == IF fail.stage = "view" THEN fail.at ELSE n + 1
        sized == Resize(views, m)
        made == 1 .. Min(n, stop - 1)
    IN  [views |-> [i \in 1 .. m |-> IF i < stop /\ i <= n
                                     THEN Handle("view", images[i][2], images[i][3])
                                     ELSE sized[i]],
         created |-> {Handle("view", images[i][2], images[i][3]) : i \in made},
         thrown |-> stop <= n]

\* Chim::CreateImageViews: one view per entry of swap_chain_images_; the view
\* at index i wraps swap_chain_images_[i] and is named after it.
CreateImageViews(g, images, fmt, views, fail) ==
    LET n == Len(images)
        stop == IF fail.stage = "view" THEN fail.at ELSE n + 1
        sized == Resize(views, n)
        made == 1 .. Min(n, stop - 1)
    IN  [views |-> [i \in 1 .. n |-> IF i < stop
                                     THEN Handle("view", images[i][2], images[i][3])
                                     ELSE sized[i]],
         created |-> {Handle("view", images[i][2], images[i][3]) : i \in made},
         thrown |-> stop <= n]

\* framebufferInfo before any call of vkCreateFramebuffer.
NoFramebufferInfo == [width |-> 0, height |-> 0]

\* A command buffer nothing has been recorded into.
NoRecording ==
    [state |-> "initial", framebuffer |-> Null, renderArea |-> Extent(0, 0),
     viewport |-> Extent(0, 0), scissor |-> Extent(0, 0)]

\* RecordCommandBuffer always drawing to the first framebuffer.
RecordCommandBufferFirstFramebuffer(commandBuffer, image_index) ==
    [state |-> "executable",
     framebuffer |-> swap_chain_frame_buffers_[1],
     renderArea |-> swap_chain_extent_,
     viewport |-> swap_chain_extent_,
     scissor |-> swap_chain_extent_]

\* Chim::RecordCommandBuffer (lines 508-555): what the buffer holds after a
\* recording that succeeded.
RecordCommandBuffer(commandBuffer, image_index) ==
    [state |-> "executable",
     framebuffer |-> swap_chain_frame_buffers_[image_index + 1],
     renderArea |-> swap_chain_extent_,
     viewport |-> swap_chain_extent_,
     scissor |-> swap_chain_extent_]

\* Chim::CreateFrameBuffers: one framebuffer per entry of
\* swap_chain_image_views_; the framebuffer at index i has
\* swap_chain_image_views_[i] as its attachment and is named after it.
CreateFrameBuffers(g, views, ext, rpfmt, fbs, fail) ==
    LET n == Len(views)
        stop == IF fail.stage = "framebuffer" THEN fail.at ELSE n + 1
        sized == Resize(fbs, n)
        made == 1 .. Min(n, stop - 1)
    IN  [frame_buffers |-> [i \in 1 .. n |-> IF i < stop
                                             THEN Handle("framebuffer", views[i][2], views[i][3])
                                             ELSE sized[i]],
         created |-> {Handle("framebuffer", views[i][2], views[i][3]) : i \in made},
         info |-> [width |-> ext.width, height |-> ext.height],
         thrown |-> stop <= n]

\* ------------------------------------------------------ object lifetimes
\* vkDestroy* on each handle of hs: a live handle dies (a swapchain takes
\* its images with it); a handle that is not live is recorded as destroyed
\* twice.  vkDestroy* of VK_NULL_HANDLE does nothing.  log lists, call after
\* call, the kinds of object destroyed.
Destroy(hs, heap) ==
    LET real == hs \ {Null}
        images == {x \in heap.live : x[1] = "image" /\ Handle("swapchain", x[2], 0) \in real}
    IN  [live |-> heap.live \ (real \cup images),
         destroyedTwice |-> heap.destroyedTwice \cup (real \ heap.live),
         log |-> IF real = {} THEN heap.log ELSE Append(heap.log, {x[1] : x \in real})]

\* CleanupSwapChain without the loop over the image views.
CleanupSwapChainLeaksViews(fbs, views, sc, heap) ==
    Destroy({sc}, Destroy(Range(fbs), heap))

\* CleanupSwapChain that takes the render pass with the chain.
CleanupSwapChainTakesRenderPass(fbs, views, sc, heap) ==
    Destroy({Handle("render_pass", 0, 0)},
            Destroy({sc}, Destroy(Range(views), Destroy(Range(fbs), heap))))

\* Chim::CleanupSwapChain: every entry of swap_chain_frame_buffers_, every
\* entry of swap_chain_image_views_, then swap_chain_.
CleanupSwapChain(fbs, views, sc, heap) ==
    Destroy({sc}, Destroy(Range(views), Destroy(Range(fbs), heap)))

Heap == [live |-> live, destroyedTwice |-> destroyedTwice, log |-> teardown]

\* A recorded command buffer becomes invalid when the framebuffer it was
\* recorded against is destroyed.
Invalidate(cbs, alive) ==
    [s \in DOMAIN cbs |->
        IF cbs[s].framebuffer = Null \/ cbs[s].framebuffer \in alive
        THEN cbs[s]
        ELSE [NoRecording EXCEPT !.state = "invalid"]]

\* Objects Init creates besides the chain, in creation order.
SyncObjects ==
    {Handle(k, 0, i) : k \in {"image_available", "render_finished", "fence"}, i \in Slots}
\* Init with the render pass and the pipeline built before the chain.
InitOrderPipelineFirst ==
    <<"window", "instance", "surface", "physical_device",
      "device", "render_pass", "pipeline", "swapchain", "view", "framebuffer",
      "command_pool", "command_buffers", "sync", "none">>

InitOrder == <<"window", "instance", "surface", "physical_device",
               "device", "swapchain", "view", "render_pass", "pipeline", "framebuffer",
               "command_pool", "command_buffers", "sync", "none">>
Rank(stage) == CHOOSE i \in 1 .. Len(InitOrder) : InitOrder[i] = stage
Passed(stage, fail) == Rank(fail.stage) > Rank(stage)
InitFailures(n) ==
    ChainFailures(n) \cup
    {[stage |-> st, at |-> 0] :
        st \in {"window", "instance", "surface", "device", "render_pass", "pipeline",
                "command_pool", "command_buffers", "sync"}}

\* vkDeviceWaitIdle returns: nothing is outstanding on either queue.
DeviceIdle == gfxQueue = <<>> /\ presentQueue = <<>>

Terminated == pc \in {"exit_success", "exit_failure"}

\* frame records, for the DrawFrame call in progress: the acquire result, the
\* present result, the slot and the chain the acquire ran on, the number of
\* RecreateSwapChain calls DrawFrame made, and whether the previous call's
\* acquire was out of date.  A call that ends out of date keeps its record
\* until the next acquire; any other return clears it.  iteration counts the
\* RecreateSwapChain calls since Run last polled the events.
NoFrame == [acquire |-> NoResult, present |-> NoResult, slot |-> 0, gen |-> 0, rebuilds |-> 0,
            afterOutOfDate |-> FALSE, iteration |-> 0]

\* What QuerySwapChainSupport (lines 628-653) may return on this platform:
\* any valid capabilities with any of the format lists the surface reports.
SurfaceReports ==
    {[x EXCEPT !.formats = f] : x \in {y \in SurfaceSupport : ValidSupport(y)},
                                f \in platform.formatLists}

\* ------------------------------------------------------------------- Init
\* The state after construction of chim::Chim (main.cpp:8): the member
\* initialisers of chim.hpp, nothing created yet.
Constructed ==
    /\ pc = "main_init"
    /\ ret = "none"
    /\ keep_window_open_ = TRUE
    /\ frame_buffer_resized_ = FALSE
    /\ resize_requested_ = FALSE
    /\ current_frame_ = 0
    /\ swap_chain_ = Null
    /\ swap_chain_images_ = <<>>
    /\ swap_chain_image_format_ = "VK_FORMAT_UNDEFINED"
    /\ swap_chain_extent_ = Extent(0, 0)
    /\ swap_chain_image_views_ = <<>>
    /\ swap_chain_frame_buffers_ = <<>>
    /\ render_pass_format = "VK_FORMAT_UNDEFINED"
    /\ command_buffers_ = [s \in Slots |-> NoRecording]
    /\ image_available_semaphores_ = [s \in Slots |-> 0]
    /\ render_finished_semaphores_ = [s \in Slots |-> 0]
    /\ in_flight_fences_ = [s \in Slots |-> FALSE]
    /\ result = NoResult
    /\ imageIndex = 0
    /\ gfxQueue = <<>>
    /\ presentQueue = <<>>
    /\ acquired = {}
    /\ live = {}
    /\ destroyedTwice = {}
    /\ gen = 0
    /\ frame = NoFrame
    /\ physical_device_ = 0
    /\ device_error = NoResult
    /\ teardown = <<>>
    /\ createInfo = NoCreateInfo
    /\ framebufferInfo = NoFramebufferInfo

\* The program starts on a platform with one suitable device or with none.
Init ==
    /\ Constructed
    /\ platform \in {DefaultPlatform, [DefaultPlatform EXCEPT !.devices = <<>>]}

\* Chim::Init (lines 16-46), called from main.cpp:12.  Any creation call may
\* fail, and then Init throws with what was created so far.
ChimInit ==
    /\ pc = "main_init"
    /\ \E support \in SurfaceReports :
       \E injected \in InitFailures(ChooseImageCount(support)) :
       \E pick \in {PickPhysicalDevice(platform.devices)} :
       \E fail \in {IF Passed("surface", injected) /\ pick.thrown
                    THEN [stage |-> "physical_device", at |-> 0]
                    ELSE injected} :
       \E sc \in {IF Passed("device", fail)
                  THEN CreateSwapChain(0, support, InitialWindowSize,
                                       FindQueueFamilies(platform.devices[pick.selected]),
                                       fail, swap_chain_,
                                       swap_chain_images_, swap_chain_image_format_,
                                       swap_chain_extent_)
                  ELSE [swap_chain |-> swap_chain_, images |-> swap_chain_images_,
                        format |-> swap_chain_image_format_, extent |-> swap_chain_extent_,
                        created |-> {}, createInfo |-> createInfo, thrown |-> TRUE]} :
       \E iv \in {IF Passed("swapchain", fail)
                  THEN CreateImageViews(0, sc.images, sc.format, swap_chain_image_views_, fail)
                  ELSE [views |-> swap_chain_image_views_, created |-> {}, thrown |-> TRUE]} :
       \E rpf \in {IF Passed("render_pass", fail) THEN sc.format ELSE render_pass_format} :
       \E fb \in {IF Passed("pipeline", fail)
                  THEN CreateFrameBuffers(0, iv.views, sc.extent, rpf,
                                          swap_chain_frame_buffers_, fail)
                  ELSE [frame_buffers |-> swap_chain_frame_buffers_, created |-> {},
                        info |-> framebufferInfo, thrown |-> TRUE]} :
        LET others == (IF Passed("window", fail) THEN {Handle("window", 0, 0)} ELSE {})
                 \cup (IF Passed("instance", fail) THEN {Handle("instance", 0, 0)} ELSE {})
                 \cup (IF Passed("surface", fail) THEN {Handle("surface", 0, 0)} ELSE {})
                 \cup (IF Passed("device", fail) THEN {Handle("device", 0, 0)} ELSE {})
                 \cup (IF Passed("render_pass", fail) THEN {Handle("render_pass", 0, 0)} ELSE {})
                 \cup (IF Passed("pipeline", fail)
                       THEN {Handle("pipeline_layout", 0, 0), Handle("pipeline", 0, 0)} ELSE {})
                 \cup (IF Passed("command_pool", fail) THEN {Handle("command_pool", 0, 0)} ELSE {})
                 \cup (IF Passed("sync", fail) THEN SyncObjects ELSE {})
        IN  /\ swap_chain_' = sc.swap_chain
            /\ swap_chain_images_' = sc.images
            /\ swap_chain_image_format_' = sc.format
            /\ swap_chain_extent_' = sc.extent
            /\ swap_chain_image_views_' = iv.views
            /\ swap_chain_frame_buffers_' = fb.frame_buffers
            /\ render_pass_format' = rpf
            /\ live' = sc.created \cup iv.created \cup fb.created \cup others
            /\ createInfo' = sc.createInfo
            /\ framebufferInfo' = fb.info
            \* CreateSyncObjects: every fence is created signaled (line 347)
            /\ in_flight_fences_' = [s \in Slots |-> Passed("sync", fail)]
            /\ physical_device_' = IF Passed("surface", fail) THEN pick.selected
                                                             ELSE physical_device_
            /\ pc' = IF fail.stage = "none" THEN "run_head" ELSE "exit_failure"
    /\ UNCHANGED <<platform, device_error, teardown>>
    /\ UNCHANGED <<ret, keep_window_open_, frame_buffer_resized_, resize_requested_,
                   current_frame_, command_buffers_,
                   image_available_semaphores_, render_finished_semaphores_, result,
                   imageIndex, gfxQueue, presentQueue, acquired, destroyedTwice,
                   gen, frame>>

\* -------------------------------------------------------------- Chim::Run
\* Line 50: the loop test.  After the loop, line 80 waits for the device.
RunLoopHead ==
    /\ pc = "run_head"
    /\ pc' = IF keep_window_open_ THEN "run_poll" ELSE "run_wait_idle"
    /\ UNCHANGED <<physical_device_, platform, device_error, teardown, createInfo,
                   framebufferInfo>>
    /\ UNCHANGED <<ret, keep_window_open_, frame_buffer_resized_, resize_requested_,
                   current_frame_, swap_chain_, swap_chain_images_,
                   swap_chain_image_format_, swap_chain_extent_, swap_chain_image_views_,
                   swap_chain_frame_buffers_, render_pass_format, command_buffers_,
                   image_available_semaphores_, render_finished_semaphores_,
                   in_flight_fences_, result, imageIndex, gfxQueue, presentQueue,
                   acquired, live, destroyedTwice, gen, frame>>

\* Lines 53-69: drain the SDL event queue.  quit: an SDL_QUIT event was in
\* it; resized: an SDL_WINDOWEVENT_SIZE_CHANGED event was in it.
RunPollEvents ==
    /\ pc = "run_poll"
    /\ \E quit \in BOOLEAN, resized \in BOOLEAN :
        /\ resized => gen < MaxGen
        /\ keep_window_open_' = (keep_window_open_ /\ ~quit)
        /\ frame_buffer_resized_' = (frame_buffer_resized_ \/ resized)
    /\ pc' = "run_resize_check"
    /\ frame' = [frame EXCEPT !.iteration = 0]
    /\ UNCHANGED <<physical_device_, platform, device_error, teardown, createInfo,
                   framebufferInfo>>
    /\ UNCHANGED <<ret, resize_requested_,
                   current_frame_, swap_chain_, swap_chain_images_,
                   swap_chain_image_format_, swap_chain_extent_, swap_chain_image_views_,
                   swap_chain_frame_buffers_, render_pass_format, command_buffers_,
                   image_available_semaphores_, render_finished_semaphores_,
                   in_flight_fences_, result, imageIndex, gfxQueue, presentQueue,
                   acquired, live, destroyedTwice, gen>>

\* Run going on to DrawFrame with the resize flag as the events left it.
RunCheckResizeLeavesFlag ==
    /\ pc = "run_resize_check"
    /\ pc' = "df_wait"
    /\ UNCHANGED <<physical_device_, platform, device_error, teardown, createInfo,
                   framebufferInfo>>
    /\ UNCHANGED <<ret, keep_window_open_, frame_buffer_resized_, resize_requested_,
                   current_frame_, swap_chain_, swap_chain_images_,
                   swap_chain_image_format_, swap_chain_extent_, swap_chain_image_views_,
                   swap_chain_frame_buffers_, render_pass_format, command_buffers_,
                   image_available_semaphores_, render_finished_semaphores_,
                   in_flight_fences_, result, imageIndex, gfxQueue, presentQueue,
                   acquired, live, destroyedTwice, gen, frame>>

\* Run clearing the flag without rebuilding the chain.
RunCheckResizeSkipsRebuild ==
    /\ pc = "run_resize_check"
    /\ IF frame_buffer_resized_
       THEN /\ frame_buffer_resized_' = FALSE
            /\ pc' = "df_wait"
            /\ UNCHANGED ret
       ELSE /\ pc' = "df_wait"
            /\ UNCHANGED <<frame_buffer_resized_, ret>>
    /\ UNCHANGED <<physical_device_, platform, device_error, teardown, createInfo,
                   framebufferInfo>>
    /\ UNCHANGED <<keep_window_open_, resize_requested_,
                   current_frame_, swap_chain_, swap_chain_images_,
                   swap_chain_image_format_, swap_chain_extent_, swap_chain_image_views_,
                   swap_chain_frame_buffers_, render_pass_format, command_buffers_,
                   image_available_semaphores_, render_finished_semaphores_,
                   in_flight_fences_, result, imageIndex, gfxQueue, presentQueue,
                   acquired, live, destroyedTwice, gen, frame>>

\* Run leaving the loop right after the quit event, before DrawFrame.
RunCheckResizeBreaksOnQuit ==
    /\ pc = "run_resize_check"
    /\ IF ~keep_window_open_
       THEN /\ pc' = "run_wait_idle"
            /\ UNCHANGED <<frame_buffer_resized_, ret>>
       ELSE IF frame_buffer_resized_
       THEN /\ frame_buffer_resized_' = FALSE
            /\ pc' = "recreate"
            /\ ret' = "df_wait"
       ELSE /\ pc' = "df_wait"
            /\ UNCHANGED <<frame_buffer_resized_, ret>>
    /\ UNCHANGED <<physical_device_, platform, device_error, teardown, createInfo,
                   framebufferInfo>>
    /\ UNCHANGED <<keep_window_open_, resize_requested_,
                   current_frame_, swap_chain_, swap_chain_images_,
                   swap_chain_image_format_, swap_chain_extent_, swap_chain_image_views_,
                   swap_chain_frame_buffers_, render_pass_format, command_buffers_,
                   image_available_semaphores_, render_finished_semaphores_,
                   in_flight_fences_, result, imageIndex, gfxQueue, presentQueue,
                   acquired, live, destroyedTwice, gen, frame>>

\* Lines 71-77: rebuild on an observed resize, then DrawFrame.
RunCheckResize ==
    /\ pc = "run_resize_check"
    /\ IF frame_buffer_resized_
       THEN /\ frame_buffer_resized_' = FALSE
            /\ pc' = "recreate"
            /\ ret' = "df_wait"
       ELSE /\ pc' = "df_wait"
            /\ UNCHANGED <<frame_buffer_resized_, ret>>
    /\ UNCHANGED <<physical_device_, platform, device_error, teardown, createInfo,
                   framebufferInfo>>
    /\ UNCHANGED <<keep_window_open_, resize_requested_,
                   current_frame_, swap_chain_, swap_chain_images_,
                   swap_chain_image_format_, swap_chain_extent_, swap_chain_image_views_,
                   swap_chain_frame_buffers_, render_pass_format, command_buffers_,
                   image_available_semaphores_, render_finished_semaphores_,
                   in_flight_fences_, result, imageIndex, gfxQueue, presentQueue,
                   acquired, live, destroyedTwice, gen, frame>>

\* Run returning from the loop without waiting for the device (line 80).
RunWaitIdleSkipped ==
    /\ pc = "run_wait_idle"
    /\ pc' = "main_cleanup"
    /\ UNCHANGED <<physical_device_, platform, device_error, teardown, createInfo,
                   framebufferInfo>>
    /\ UNCHANGED <<ret, keep_window_open_, frame_buffer_resized_, resize_requested_,
                   current_frame_, swap_chain_, swap_chain_images_,
                   swap_chain_image_format_, swap_chain_extent_, swap_chain_image_views_,
                   swap_chain_frame_buffers_, render_pass_format, command_buffers_,
                   image_available_semaphores_, render_finished_semaphores_,
                   in_flight_fences_, result, imageIndex, gfxQueue, presentQueue,
                   acquired, live, destroyedTwice, gen, frame>>

\* Line 80: vkDeviceWaitIdle(device_) returns; Run returns to main.
RunWaitIdle ==
    /\ pc = "run_wait_idle"
    /\ DeviceIdle
    /\ pc' = "main_cleanup"
    /\ UNCHANGED <<physical_device_, platform, device_error, teardown, createInfo,
                   framebufferInfo>>
    /\ UNCHANGED <<ret, keep_window_open_, frame_buffer_resized_, resize_requested_,
                   current_frame_, swap_chain_, swap_chain_images_,
                   swap_chain_image_format_, swap_chain_extent_, swap_chain_image_views_,
                   swap_chain_frame_buffers_, render_pass_format, command_buffers_,
                   image_available_semaphores_, render_finished_semaphores_,
                   in_flight_fences_, result, imageIndex, gfxQueue, presentQueue,
                   acquired, live, destroyedTwice, gen, frame>>

\* Cleanup destroying the frame slots first, then the chain, then the
\* pipeline and the render pass.
CleanupSlotsFirst ==
    /\ pc = "main_cleanup"
    /\ LET h1 == Destroy({Handle("command_pool", 0, 0)}, Destroy(SyncObjects, Heap))
           h2 == CleanupSwapChain(swap_chain_frame_buffers_, swap_chain_image_views_,
                                  swap_chain_, h1)
           h3 == Destroy({Handle("render_pass", 0, 0)},
                         Destroy({Handle("pipeline_layout", 0, 0)},
                                 Destroy({Handle("pipeline", 0, 0)}, h2)))
           h5 == Destroy({Handle("device", 0, 0)}, h3)
           h6 == Destroy({Handle("surface", 0, 0)}, h5)
           h7 == Destroy({Handle("instance", 0, 0)}, h6)
           h8 == Destroy({Handle("window", 0, 0)}, h7)
       IN  /\ live' = h8.live
           /\ destroyedTwice' = h8.destroyedTwice
           /\ teardown' = h8.log
           /\ command_buffers_' = Invalidate(command_buffers_, h8.live)
    /\ pc' = "exit_success"
    /\ UNCHANGED <<physical_device_, platform, device_error, createInfo, framebufferInfo>>
    /\ UNCHANGED <<ret, keep_window_open_, frame_buffer_resized_, resize_requested_,
                   current_frame_, swap_chain_, swap_chain_images_,
                   swap_chain_image_format_, swap_chain_extent_, swap_chain_image_views_,
                   swap_chain_frame_buffers_, render_pass_format,
                   image_available_semaphores_, render_finished_semaphores_,
                   in_flight_fences_, result, imageIndex, gfxQueue, presentQueue,
                   acquired, gen, frame>>

\* ---------------------------------------------------------- Chim::Cleanup
\* Lines 83-114, called from main.cpp:14 after Run returned.
Cleanup ==
    /\ pc = "main_cleanup"
    /\ LET h1 == CleanupSwapChain(swap_chain_frame_buffers_, swap_chain_image_views_,
                                  swap_chain_, Heap)
           h2 == Destroy({Handle("render_pass", 0, 0)},
                         Destroy({Handle("pipeline_layout", 0, 0)},
                                 Destroy({Handle("pipeline", 0, 0)}, h1)))
           h3 == Destroy(SyncObjects, h2)
           h4 == Destroy({Handle("command_pool", 0, 0)}, h3)
           h5 == Destroy({Handle("device", 0, 0)}, h4)
           h6 == Destroy({Handle("surface", 0, 0)}, h5)
           h7 == Destroy({Handle("instance", 0, 0)}, h6)
           h8 == Destroy({Handle("window", 0, 0)}, h7)
       IN  /\ live' = h8.live
           /\ destroyedTwice' = h8.destroyedTwice
           /\ teardown' = h8.log
           /\ command_buffers_' = Invalidate(command_buffers_, h8.live)
    /\ pc' = "exit_success"
    /\ UNCHANGED <<physical_device_, platform, device_error, createInfo, framebufferInfo>>
    /\ UNCHANGED <<ret, keep_window_open_, frame_buffer_resized_, resize_requested_,
                   current_frame_, swap_chain_, swap_chain_images_,
                   swap_chain_image_format_, swap_chain_extent_, swap_chain_image_views_,
                   swap_chain_frame_buffers_, render_pass_format,
                   image_available_semaphores_, render_finished_semaphores_,
                   in_flight_fences_, result, imageIndex, gfxQueue, presentQueue,
                   acquired, gen, frame>>

\* ------------------------------------------------ Chim::RecreateSwapChain
\* Lines 826-843.  vkDeviceWaitIdle blocks until both queues are empty; then
\* CleanupSwapChain, SDL_GetWindowSize (window_size, an input) into
\* swap_chain_extent_, CreateSwapChain, CreateImageViews, CreateFrameBuffers,
\* and the flag is cleared.  A creation failure throws out of Run to main.
\* support is what QuerySwapChainSupport returns during the call, drawable
\* what SDL_Vulkan_GetDrawableSize returns inside ChooseSwapExtent.
RecreateSwapChainOn(support, window_size, drawable) ==
    /\ pc = "recreate"
    /\ DeviceIdle
    /\ \E heap \in {CleanupSwapChain(swap_chain_frame_buffers_, swap_chain_image_views_,
                                     swap_chain_, Heap)} :
       \E fail \in ChainFailures(ChooseImageCount(support)) :
       \E sc \in {CreateSwapChain(gen + 1, support, drawable,
                                  FindQueueFamilies(platform.devices[physical_device_]),
                                  fail, swap_chain_,
                                  swap_chain_images_, swap_chain_image_format_, window_size)} :
       \E iv \in {IF sc.thrown
                  THEN [views |-> swap_chain_image_views_, created |-> {}, thrown |-> TRUE]
                  ELSE CreateImageViews(gen + 1, sc.images, sc.format,
                                        swap_chain_image_views_, fail)} :
       \E fb \in {IF iv.thrown
                  THEN [frame_buffers |-> swap_chain_frame_buffers_, created |-> {},
                        info |-> framebufferInfo, thrown |-> TRUE]
                  ELSE CreateFrameBuffers(gen + 1, iv.views, sc.extent, render_pass_format,
                                          swap_chain_frame_buffers_, fail)} :
       \E newlive \in {heap.live \cup sc.created \cup iv.created \cup fb.created} :
            /\ swap_chain_' = sc.swap_chain
            /\ swap_chain_images_' = sc.images
            /\ swap_chain_image_format_' = sc.format
            /\ swap_chain_extent_' = sc.extent
            /\ swap_chain_image_views_' = iv.views
            /\ swap_chain_frame_buffers_' = fb.frame_buffers
            /\ live' = newlive
            /\ createInfo' = sc.createInfo
            /\ framebufferInfo' = fb.info
            /\ destroyedTwice' = heap.destroyedTwice
            /\ command_buffers_' = Invalidate(command_buffers_, newlive)
            /\ gen' = IF sc.thrown THEN gen ELSE gen + 1
            /\ acquired' = acquired \cap newlive
            /\ frame_buffer_resized_' = IF fb.thrown THEN frame_buffer_resized_ ELSE FALSE
            /\ pc' = IF fb.thrown THEN "exit_failure" ELSE ret
    /\ frame' = IF ret = "df_wait"
                THEN [frame EXCEPT !.iteration = @ + 1]
                ELSE [frame EXCEPT !.rebuilds = @ + 1, !.iteration = @ + 1]
    \* line 127: after the rebuild for an out-of-date acquire DrawFrame
    \* returns, and its locals are gone
    /\ result' = IF ret = "run_head" THEN NoResult ELSE result
    /\ ret' = "none"
    /\ UNCHANGED <<physical_device_, platform, device_error, teardown>>
    /\ UNCHANGED <<keep_window_open_, resize_requested_, current_frame_,
                   render_pass_format, image_available_semaphores_,
                   render_finished_semaphores_, in_flight_fences_, imageIndex,
                   gfxQueue, presentQueue>>

\* RecreateSwapChain in the frame loop: the surface reports any capabilities,
\* the window has any size, and the drawable size is the window size.
RecreateSwapChain ==
    \E support \in SurfaceReports, window_size \in WindowSizes :
        RecreateSwapChainOn(support, window_size, window_size)

\* --------------------------------------------------------- Chim::DrawFrame
\* Images of the live chain the presentation engine can hand out: not held
\* by the application and not waiting in a present request.
Presentable ==
    {i \in 1 .. Len(swap_chain_images_) :
        /\ swap_chain_images_[i] \notin acquired
        /\ \A k \in 1 .. Len(presentQueue) : presentQueue[k].image # swap_chain_images_[i]}

\* DrawFrame resetting the fence right after the wait, before the acquire.
DfWaitForFencesResetsFence ==
    /\ pc = "df_wait"
    /\ in_flight_fences_[current_frame_]
    /\ in_flight_fences_' = [in_flight_fences_ EXCEPT ![current_frame_] = FALSE]
    /\ pc' = "df_acquire"
    /\ frame' = [frame EXCEPT !.present = NoResult, !.rebuilds = 0]
    /\ UNCHANGED <<physical_device_, platform, device_error, teardown, createInfo,
                   framebufferInfo>>
    /\ UNCHANGED <<ret, keep_window_open_, frame_buffer_resized_, resize_requested_,
                   current_frame_, swap_chain_, swap_chain_images_,
                   swap_chain_image_format_, swap_chain_extent_, swap_chain_image_views_,
                   swap_chain_frame_buffers_, render_pass_format, command_buffers_,
                   image_available_semaphores_, render_finished_semaphores_,
                    result, imageIndex, gfxQueue, presentQueue,
                   acquired, live, destroyedTwice, gen>>

\* DrawFrame without the fence wait.
DfWaitForFencesSkipped ==
    /\ pc = "df_wait"
    /\ pc' = "df_acquire"
    /\ frame' = [frame EXCEPT !.present = NoResult, !.rebuilds = 0]
    /\ UNCHANGED <<physical_device_, platform, device_error, teardown, createInfo,
                   framebufferInfo>>
    /\ UNCHANGED <<ret, keep_window_open_, frame_buffer_resized_, resize_requested_,
                   current_frame_, swap_chain_, swap_chain_images_,
                   swap_chain_image_format_, swap_chain_extent_, swap_chain_image_views_,
                   swap_chain_frame_buffers_, render_pass_format, command_buffers_,
                   image_available_semaphores_, render_finished_semaphores_,
                   in_flight_fences_, result, imageIndex, gfxQueue, presentQueue,
                   acquired, live, destroyedTwice, gen>>

\* Line 118: vkWaitForFences on the current slot's fence, no timeout.
DfWaitForFences ==
    /\ pc = "df_wait"
    /\ in_flight_fences_[current_frame_]
    /\ pc' = "df_acquire"
    /\ frame' = [frame EXCEPT !.present = NoResult, !.rebuilds = 0]
    /\ UNCHANGED <<physical_device_, platform, device_error, teardown, createInfo,
                   framebufferInfo>>
    /\ UNCHANGED <<ret, keep_window_open_, frame_buffer_resized_, resize_requested_,
                   current_frame_, swap_chain_, swap_chain_images_,
                   swap_chain_image_format_, swap_chain_extent_, swap_chain_image_views_,
                   swap_chain_frame_buffers_, render_pass_format, command_buffers_,
                   image_available_semaphores_, render_finished_semaphores_,
                   in_flight_fences_, result, imageIndex, gfxQueue, presentQueue,
                   acquired, live, destroyedTwice, gen>>

\* DrawFrame without the return after the out-of-date rebuild (line 127).
DfAcquireNextImageFallsThrough ==
    /\ pc = "df_acquire"
    /\ \E res \in AcquireResults :
        /\ result' = res
        /\ frame' = [frame EXCEPT !.acquire = res, !.slot = current_frame_, !.gen = gen,
                                  !.afterOutOfDate = (frame.acquire = VK_ERROR_OUT_OF_DATE_KHR)]
        /\ IF res \in {VK_SUCCESS, VK_SUBOPTIMAL_KHR}
           THEN \E i \in Presentable :
                    /\ imageIndex' = i - 1
                    /\ acquired' = acquired \cup {swap_chain_images_[i]}
                    /\ image_available_semaphores_' =
                           [image_available_semaphores_ EXCEPT ![current_frame_] = @ + 1]
                    /\ pc' = "df_record"
                    /\ UNCHANGED ret
           ELSE /\ UNCHANGED <<imageIndex, acquired, image_available_semaphores_>>
                /\ IF res = VK_ERROR_OUT_OF_DATE_KHR
                   THEN /\ gen < MaxGen
                        /\ pc' = "recreate"
                        /\ ret' = "df_record"
                   ELSE /\ pc' = "exit_failure"
                        /\ UNCHANGED ret
    /\ UNCHANGED <<physical_device_, platform, device_error, teardown, createInfo,
                   framebufferInfo>>
    /\ UNCHANGED <<keep_window_open_, frame_buffer_resized_, resize_requested_,
                   current_frame_, swap_chain_, swap_chain_images_,
                   swap_chain_image_format_, swap_chain_extent_, swap_chain_image_views_,
                   swap_chain_frame_buffers_, render_pass_format, command_buffers_,
                   render_finished_semaphores_,
                   in_flight_fences_, gfxQueue, presentQueue,
                   live, destroyedTwice, gen>>

\* Lines 120-132: vkAcquireNextImageKHR, no timeout, signalling the slot's
\* image-available semaphore; out of date rebuilds and returns, any other
\* failure throws.
DfAcquireNextImage ==
    /\ pc = "df_acquire"
    /\ \E res \in AcquireResults :
        /\ result' = res
        /\ frame' = [frame EXCEPT !.acquire = res, !.slot = current_frame_, !.gen = gen,
                                  !.afterOutOfDate = (frame.acquire = VK_ERROR_OUT_OF_DATE_KHR)]
        /\ IF res \in {VK_SUCCESS, VK_SUBOPTIMAL_KHR}
           THEN \E i \in Presentable :
                    /\ imageIndex' = i - 1
                    /\ acquired' = acquired \cup {swap_chain_images_[i]}
                    /\ image_available_semaphores_' =
                           [image_available_semaphores_ EXCEPT ![current_frame_] = @ + 1]
                    /\ pc' = "df_record"
                    /\ UNCHANGED ret
           ELSE /\ UNCHANGED <<imageIndex, acquired, image_available_semaphores_>>
                /\ IF res = VK_ERROR_OUT_OF_DATE_KHR
                   THEN /\ gen < MaxGen
                        /\ pc' = "recreate"
                        /\ ret' = "run_head"
                   ELSE /\ pc' = "exit_failure"
                        /\ UNCHANGED ret
    /\ UNCHANGED <<physical_device_, platform, device_error, teardown, createInfo,
                   framebufferInfo>>
    /\ UNCHANGED <<keep_window_open_, frame_buffer_resized_, resize_requested_,
                   current_frame_, swap_chain_, swap_chain_images_,
                   swap_chain_image_format_, swap_chain_extent_, swap_chain_image_views_,
                   swap_chain_frame_buffers_, render_pass_format, command_buffers_,
                   render_finished_semaphores_,
                   in_flight_fences_, gfxQueue, presentQueue,
                   live, destroyedTwice, gen>>

\* DrawFrame going on to the submit whatever RecordCommandBuffer did.
DfResetAndRecordIgnoresFailure ==
    /\ pc = "df_record"
    /\ in_flight_fences_' = [in_flight_fences_ EXCEPT ![current_frame_] = FALSE]
    /\ \E outcome \in {"ok", "begin_failed", "end_failed"} :
        /\ command_buffers_' =
             [command_buffers_ EXCEPT ![current_frame_] =
                IF outcome = "begin_failed"
                THEN NoRecording
                ELSE [RecordCommandBuffer(current_frame_, imageIndex) EXCEPT
                        !.state = IF outcome = "ok" THEN "executable" ELSE "invalid"]]
        /\ pc' = "df_submit"
    /\ UNCHANGED <<physical_device_, platform, device_error, teardown, createInfo,
                   framebufferInfo>>
    /\ UNCHANGED <<ret, keep_window_open_, frame_buffer_resized_, resize_requested_,
                   current_frame_, swap_chain_, swap_chain_images_,
                   swap_chain_image_format_, swap_chain_extent_, swap_chain_image_views_,
                   swap_chain_frame_buffers_, render_pass_format,
                   image_available_semaphores_, render_finished_semaphores_,
                   result, imageIndex, gfxQueue, presentQueue,
                   acquired, live, destroyedTwice, gen, frame>>

\* Lines 135-138: vkResetFences, vkResetCommandBuffer, RecordCommandBuffer
\* (lines 508-555), which throws when vkBeginCommandBuffer or
\* vkEndCommandBuffer fails.
DfResetAndRecord ==
    /\ pc = "df_record"
    /\ in_flight_fences_' = [in_flight_fences_ EXCEPT ![current_frame_] = FALSE]
    /\ \E outcome \in {"ok", "begin_failed", "end_failed"} :
        /\ command_buffers_' =
             [command_buffers_ EXCEPT ![current_frame_] =
                IF outcome = "begin_failed"
                THEN NoRecording
                ELSE [RecordCommandBuffer(current_frame_, imageIndex) EXCEPT
                        !.state = IF outcome = "ok" THEN "executable" ELSE "invalid"]]
        /\ pc' = IF outcome = "ok" THEN "df_submit" ELSE "exit_failure"
    /\ UNCHANGED <<physical_device_, platform, device_error, teardown, createInfo,
                   framebufferInfo>>
    /\ UNCHANGED <<ret, keep_window_open_, frame_buffer_resized_, resize_requested_,
                   current_frame_, swap_chain_, swap_chain_images_,
                   swap_chain_image_format_, swap_chain_extent_, swap_chain_image_views_,
                   swap_chain_frame_buffers_, render_pass_format,
                   image_available_semaphores_, render_finished_semaphores_,
                   result, imageIndex, gfxQueue, presentQueue,
                   acquired, live, destroyedTwice, gen, frame>>

\* DrawFrame with a handler that runs Cleanup when the submit fails.
DfQueueSubmitFailureCleansUp ==
    /\ pc = "df_submit"
    /\ \E ok \in BOOLEAN :
        IF ok
        THEN /\ gfxQueue' = Append(gfxQueue,
                    [slot |-> current_frame_,
                     framebuffer |-> command_buffers_[current_frame_].framebuffer])
             /\ pc' = "df_present"
        ELSE /\ pc' = "main_cleanup"
             /\ UNCHANGED gfxQueue
    /\ UNCHANGED <<physical_device_, platform, device_error, teardown, createInfo,
                   framebufferInfo>>
    /\ UNCHANGED <<ret, keep_window_open_, frame_buffer_resized_, resize_requested_,
                   current_frame_, swap_chain_, swap_chain_images_,
                   swap_chain_image_format_, swap_chain_extent_, swap_chain_image_views_,
                   swap_chain_frame_buffers_, render_pass_format, command_buffers_,
                   image_available_semaphores_, render_finished_semaphores_,
                   in_flight_fences_, result, imageIndex, presentQueue,
                   acquired, live, destroyedTwice, gen, frame>>

\* Lines 140-159: vkQueueSubmit of the slot's command buffer, waiting on the
\* slot's image-available semaphore, signalling its render-finished
\* semaphore and its fence.
DfQueueSubmit ==
    /\ pc = "df_submit"
    /\ \E ok \in BOOLEAN :
        IF ok
        THEN /\ gfxQueue' = Append(gfxQueue,
                    [slot |-> current_frame_,
                     framebuffer |-> command_buffers_[current_frame_].framebuffer])
             /\ pc' = "df_present"
        ELSE /\ pc' = "exit_failure"
             /\ UNCHANGED gfxQueue
    /\ UNCHANGED <<physical_device_, platform, device_error, teardown, createInfo,
                   framebufferInfo>>
    /\ UNCHANGED <<ret, keep_window_open_, frame_buffer_resized_, resize_requested_,
                   current_frame_, swap_chain_, swap_chain_images_,
                   swap_chain_image_format_, swap_chain_extent_, swap_chain_image_views_,
                   swap_chain_frame_buffers_, render_pass_format, command_buffers_,
                   image_available_semaphores_, render_finished_semaphores_,
                   in_flight_fences_, result, imageIndex, presentQueue,
                   acquired, live, destroyedTwice, gen, frame>>

\* DrawFrame presenting with the render-finished semaphore of the other slot.
DfQueuePresentWaitsOtherSlot ==
    /\ pc = "df_present"
    /\ \E res \in PresentResults :
        /\ res \in {VK_SUBOPTIMAL_KHR, VK_ERROR_OUT_OF_DATE_KHR} => gen < MaxGen
        /\ result' = res
        /\ frame' = [frame EXCEPT !.present = res]
        /\ IF res \in OtherFailures
           THEN UNCHANGED <<presentQueue, acquired>>
           ELSE /\ presentQueue' = Append(presentQueue,
                        [slot |-> (current_frame_ + 1) % MAX_FRAMES_IN_FLIGHT,
                         swapchain |-> swap_chain_,
                         image |-> swap_chain_images_[imageIndex + 1]])
                /\ acquired' = acquired \ {swap_chain_images_[imageIndex + 1]}
    /\ pc' = "df_present_check"
    /\ UNCHANGED <<physical_device_, platform, device_error, teardown, createInfo,
                   framebufferInfo>>
    /\ UNCHANGED <<ret, keep_window_open_, frame_buffer_resized_, resize_requested_,
                   current_frame_, swap_chain_, swap_chain_images_,
                   swap_chain_image_format_, swap_chain_extent_, swap_chain_image_views_,
                   swap_chain_frame_buffers_, render_pass_format, command_buffers_,
                   image_available_semaphores_, render_finished_semaphores_,
                   in_flight_fences_, imageIndex, gfxQueue,
                   live, destroyedTwice, gen>>

\* Lines 161-173: vkQueuePresentKHR of imageIndex on swap_chain_, waiting on
\* the slot's render-finished semaphore.  The request is queued whenever the
\* result is success, suboptimal or out of date.
DfQueuePresent ==
    /\ pc = "df_present"
    /\ \E res \in PresentResults :
        /\ res \in {VK_SUBOPTIMAL_KHR, VK_ERROR_OUT_OF_DATE_KHR} => gen < MaxGen
        /\ result' = res
        /\ frame' = [frame EXCEPT !.present = res]
        /\ IF res \in OtherFailures
           THEN UNCHANGED <<presentQueue, acquired>>
           ELSE /\ presentQueue' = Append(presentQueue,
                        [slot |-> current_frame_, swapchain |-> swap_chain_,
                         image |-> swap_chain_images_[imageIndex + 1]])
                /\ acquired' = acquired \ {swap_chain_images_[imageIndex + 1]}
    /\ pc' = "df_present_check"
    /\ UNCHANGED <<physical_device_, platform, device_error, teardown, createInfo,
                   framebufferInfo>>
    /\ UNCHANGED <<ret, keep_window_open_, frame_buffer_resized_, resize_requested_,
                   current_frame_, swap_chain_, swap_chain_images_,
                   swap_chain_image_format_, swap_chain_extent_, swap_chain_image_views_,
                   swap_chain_frame_buffers_, render_pass_format, command_buffers_,
                   image_available_semaphores_, render_finished_semaphores_,
                   in_flight_fences_, imageIndex, gfxQueue,
                   live, destroyedTwice, gen>>

\* The present test presenting again after the rebuild.
DfCheckPresentResultRetries ==
    /\ pc = "df_present_check"
    /\ IF \/ result = VK_ERROR_OUT_OF_DATE_KHR
          \/ result = VK_SUBOPTIMAL_KHR
          \/ frame_buffer_resized_
       THEN /\ pc' = "recreate"
            /\ ret' = "df_present"
       ELSE /\ pc' = IF result # VK_SUCCESS THEN "exit_failure" ELSE "df_resize_check"
            /\ UNCHANGED ret
    /\ UNCHANGED <<physical_device_, platform, device_error, teardown, createInfo,
                   framebufferInfo>>
    /\ UNCHANGED <<keep_window_open_, frame_buffer_resized_, resize_requested_,
                   current_frame_, swap_chain_, swap_chain_images_,
                   swap_chain_image_format_, swap_chain_extent_, swap_chain_image_views_,
                   swap_chain_frame_buffers_, render_pass_format, command_buffers_,
                   image_available_semaphores_, render_finished_semaphores_,
                   in_flight_fences_, result, imageIndex, gfxQueue, presentQueue,
                   acquired, live, destroyedTwice, gen, frame>>

\* The present test rebuilding on every result that is not VK_SUCCESS.
DfCheckPresentResultAbsorbsAll ==
    /\ pc = "df_present_check"
    /\ IF result # VK_SUCCESS \/ frame_buffer_resized_
       THEN /\ pc' = "recreate"
            /\ ret' = "df_resize_check"
       ELSE /\ pc' = "df_resize_check"
            /\ UNCHANGED ret
    /\ UNCHANGED <<physical_device_, platform, device_error, teardown, createInfo,
                   framebufferInfo>>
    /\ UNCHANGED <<keep_window_open_, frame_buffer_resized_, resize_requested_,
                   current_frame_, swap_chain_, swap_chain_images_,
                   swap_chain_image_format_, swap_chain_extent_, swap_chain_image_views_,
                   swap_chain_frame_buffers_, render_pass_format, command_buffers_,
                   image_available_semaphores_, render_finished_semaphores_,
                   in_flight_fences_, result, imageIndex, gfxQueue, presentQueue,
                   acquired, live, destroyedTwice, gen, frame>>

\* The check after the present with the assignment of line 178 in effect:
\* the rebuild branch also sets resize_requested_.
DfCheckPresentResultRequestsResize ==
    /\ pc = "df_present_check"
    /\ IF \/ result = VK_ERROR_OUT_OF_DATE_KHR
          \/ result = VK_SUBOPTIMAL_KHR
          \/ frame_buffer_resized_
       THEN /\ pc' = "recreate"
            /\ ret' = "df_resize_check"
            /\ resize_requested_' = TRUE
       ELSE /\ pc' = IF result # VK_SUCCESS THEN "exit_failure" ELSE "df_resize_check"
            /\ UNCHANGED <<ret, resize_requested_>>
    /\ UNCHANGED <<physical_device_, platform, device_error, teardown, createInfo,
                   framebufferInfo>>
    /\ UNCHANGED <<keep_window_open_, frame_buffer_resized_,
                   current_frame_, swap_chain_, swap_chain_images_,
                   swap_chain_image_format_, swap_chain_extent_, swap_chain_image_views_,
                   swap_chain_frame_buffers_, render_pass_format, command_buffers_,
                   image_available_semaphores_, render_finished_semaphores_,
                   in_flight_fences_, result, imageIndex, gfxQueue, presentQueue,
                   acquired, live, destroyedTwice, gen, frame>>

\* Lines 175-183: the test on the present result.
DfCheckPresentResult ==
    /\ pc = "df_present_check"
    /\ IF \/ result = VK_ERROR_OUT_OF_DATE_KHR
          \/ result = VK_SUBOPTIMAL_KHR
          \/ frame_buffer_resized_
       THEN /\ pc' = "recreate"
            /\ ret' = "df_resize_check"
       ELSE /\ pc' = IF result # VK_SUCCESS THEN "exit_failure" ELSE "df_resize_check"
            /\ UNCHANGED ret
    /\ UNCHANGED <<physical_device_, platform, device_error, teardown, createInfo,
                   framebufferInfo>>
    /\ UNCHANGED <<keep_window_open_, frame_buffer_resized_, resize_requested_,
                   current_frame_, swap_chain_, swap_chain_images_,
                   swap_chain_image_format_, swap_chain_extent_, swap_chain_image_views_,
                   swap_chain_frame_buffers_, render_pass_format, command_buffers_,
                   image_available_semaphores_, render_finished_semaphores_,
                   in_flight_fences_, result, imageIndex, gfxQueue, presentQueue,
                   acquired, live, destroyedTwice, gen, frame>>

\* DrawFrame returning without moving to the next slot.
DfAdvanceKeepsSlot ==
    /\ pc \in {"df_resize_check", "df_advance"}
    /\ IF pc = "df_resize_check" /\ resize_requested_
       THEN /\ pc' = "recreate"
            /\ ret' = "df_advance"
            /\ UNCHANGED <<current_frame_, result, imageIndex, frame>>
       ELSE /\ current_frame_' = current_frame_
            /\ pc' = "run_head"
            \* DrawFrame returns: its locals are gone
            /\ result' = NoResult
            /\ imageIndex' = 0
            /\ frame' = NoFrame
            /\ UNCHANGED ret
    /\ UNCHANGED <<physical_device_, platform, device_error, teardown, createInfo,
                   framebufferInfo>>
    /\ UNCHANGED <<keep_window_open_, frame_buffer_resized_, resize_requested_,
                   swap_chain_, swap_chain_images_,
                   swap_chain_image_format_, swap_chain_extent_, swap_chain_image_views_,
                   swap_chain_frame_buffers_, render_pass_format, command_buffers_,
                   image_available_semaphores_, render_finished_semaphores_,
                   in_flight_fences_, gfxQueue, presentQueue,
                   acquired, live, destroyedTwice, gen>>

\* Lines 185-190: the resize_requested_ rebuild, then the slot advances and
\* DrawFrame returns to the loop head.
DfAdvance ==
    /\ pc \in {"df_resize_check", "df_advance"}
    /\ IF pc = "df_resize_check" /\ resize_requested_
       THEN /\ pc' = "recreate"
            /\ ret' = "df_advance"
            /\ UNCHANGED <<current_frame_, result, imageIndex, frame>>
       ELSE /\ current_frame_' = (current_frame_ + 1) % MAX_FRAMES_IN_FLIGHT
            /\ pc' = "run_head"
            \* DrawFrame returns: its locals are gone
            /\ result' = NoResult
            /\ imageIndex' = 0
            /\ frame' = NoFrame
            /\ UNCHANGED ret
    /\ UNCHANGED <<physical_device_, platform, device_error, teardown, createInfo,
                   framebufferInfo>>
    /\ UNCHANGED <<keep_window_open_, frame_buffer_resized_, resize_requested_,
                   swap_chain_, swap_chain_images_,
                   swap_chain_image_format_, swap_chain_extent_, swap_chain_image_views_,
                   swap_chain_frame_buffers_, render_pass_format, command_buffers_,
                   image_available_semaphores_, render_finished_semaphores_,
                   in_flight_fences_, gfxQueue, presentQueue,
                   acquired, live, destroyedTwice, gen>>

\* --------------------------------------------------------------- the GPU
\* The graphics queue retires its oldest submission once the semaphore it
\* waits on is signaled: the wait consumes that signal, the render-finished
\* semaphore and the fence named in the submit are signaled.
GpuRetireSubmit ==
    /\ ~Terminated
    /\ gfxQueue # <<>>
    /\ LET s == Head(gfxQueue).slot
       IN  /\ image_available_semaphores_[s] > 0
           /\ image_available_semaphores_' = [image_available_semaphores_ EXCEPT ![s] = @ - 1]
           /\ render_finished_semaphores_' = [render_finished_semaphores_ EXCEPT ![s] = @ + 1]
           /\ in_flight_fences_' = [in_flight_fences_ EXCEPT ![s] = TRUE]
    /\ gfxQueue' = Tail(gfxQueue)
    /\ UNCHANGED <<physical_device_, platform, device_error, teardown, createInfo,
                   framebufferInfo>>
    /\ UNCHANGED <<pc, ret, keep_window_open_, frame_buffer_resized_, resize_requested_,
                   current_frame_, swap_chain_, swap_chain_images_,
                   swap_chain_image_format_, swap_chain_extent_, swap_chain_image_views_,
                   swap_chain_frame_buffers_, render_pass_format, command_buffers_,
                   result, imageIndex, presentQueue,
                   acquired, live, destroyedTwice, gen, frame>>

\* The present queue retires its oldest request once the semaphore it waits
\* on is signaled; the image goes back to the presentation engine.
GpuRetirePresent ==
    /\ ~Terminated
    /\ presentQueue # <<>>
    /\ LET s == Head(presentQueue).slot
       IN  /\ render_finished_semaphores_[s] > 0
           /\ render_finished_semaphores_' = [render_finished_semaphores_ EXCEPT ![s] = @ - 1]
    /\ presentQueue' = Tail(presentQueue)
    /\ UNCHANGED <<physical_device_, platform, device_error, teardown, createInfo,
                   framebufferInfo>>
    /\ UNCHANGED <<pc, ret, keep_window_open_, frame_buffer_resized_, resize_requested_,
                   current_frame_, swap_chain_, swap_chain_images_,
                   swap_chain_image_format_, swap_chain_extent_, swap_chain_image_views_,
                   swap_chain_frame_buffers_, render_pass_format, command_buffers_,
                   image_available_semaphores_, in_flight_fences_,
                   result, imageIndex, gfxQueue,
                   acquired, live, destroyedTwice, gen, frame>>

\* ------------------------------------------------------- specifications
Next ==
    \/ ChimInit
    \/ RunLoopHead
    \/ RunPollEvents
    \/ RunCheckResize
    \/ RunWaitIdle
    \/ Cleanup
    \/ RecreateSwapChain
    \/ DfWaitForFences
    \/ DfAcquireNextImage
    \/ DfResetAndRecord
    \/ DfQueueSubmit
    \/ DfQueuePresent
    \/ DfCheckPresentResult
    \/ DfAdvance
    \/ GpuRetireSubmit
    \/ GpuRetirePresent

Spec == Init /\ [][Next]_vars

\* The GPU completes every submission and present request it was given,
\* and the control thread runs whenever it is not blocked.
LiveSpec ==
    /\ Spec
    /\ WF_vars(GpuRetireSubmit)
    /\ WF_vars(GpuRetirePresent)
    /\ WF_vars(DfWaitForFences)

\* ------------------------------------------------- discarded device results
\* The frame loop with the device calls whose VkResult the code does not
\* look at returning a failure (VK_ERROR_DEVICE_LOST).  One such failure is
\* followed per run.  vkDeviceWaitIdle at line 828 and
\* vkGetSwapchainImagesKHR at lines 803-805 are discarded the same way.

\* Line 118: vkWaitForFences fails, the fence need not be signaled, and
\* DrawFrame goes on to the acquire.
DfWaitForFencesFails ==
    /\ pc = "df_wait"
    /\ device_error = NoResult
    /\ device_error' = "vkWaitForFences"
    /\ pc' = "df_acquire"
    /\ frame' = [frame EXCEPT !.present = NoResult, !.rebuilds = 0]
    /\ UNCHANGED <<physical_device_, platform, teardown, createInfo, framebufferInfo>>
    /\ UNCHANGED <<ret, keep_window_open_, frame_buffer_resized_, resize_requested_,
                   current_frame_, swap_chain_, swap_chain_images_,
                   swap_chain_image_format_, swap_chain_extent_, swap_chain_image_views_,
                   swap_chain_frame_buffers_, render_pass_format, command_buffers_,
                   image_available_semaphores_, render_finished_semaphores_, in_flight_fences_,
                   result, imageIndex, gfxQueue, presentQueue,
                   acquired, live, destroyedTwice, gen>>

\* Lines 135-138: vkResetFences fails and the fence keeps its state, or
\* vkResetCommandBuffer fails; DrawFrame goes on to record (vkBeginCommandBuffer
\* resets the buffer itself) and to submit.
DfResetFails ==
    /\ pc = "df_record"
    /\ device_error = NoResult
    /\ \E call \in {"vkResetFences", "vkResetCommandBuffer"} :
        /\ device_error' = call
        /\ in_flight_fences_' = IF call = "vkResetFences"
                                THEN in_flight_fences_
                                ELSE [in_flight_fences_ EXCEPT ![current_frame_] = FALSE]
    /\ command_buffers_' =
         [command_buffers_ EXCEPT ![current_frame_] =
            RecordCommandBuffer(current_frame_, imageIndex)]
    /\ pc' = "df_submit"
    /\ UNCHANGED <<physical_device_, platform, teardown, createInfo, framebufferInfo>>
    /\ UNCHANGED <<ret, keep_window_open_, frame_buffer_resized_, resize_requested_,
                   current_frame_, swap_chain_, swap_chain_images_,
                   swap_chain_image_format_, swap_chain_extent_, swap_chain_image_views_,
                   swap_chain_frame_buffers_, render_pass_format,
                   image_available_semaphores_, render_finished_semaphores_,
                   result, imageIndex, gfxQueue, presentQueue,
                   acquired, live, destroyedTwice, gen, frame>>

\* Line 80: vkDeviceWaitIdle fails without having waited, and Run returns
\* to main, which calls Cleanup.
RunWaitIdleFails ==
    /\ pc = "run_wait_idle"
    /\ device_error = NoResult
    /\ device_error' = "vkDeviceWaitIdle"
    /\ pc' = "main_cleanup"
    /\ UNCHANGED <<physical_device_, platform, teardown, createInfo, framebufferInfo>>
    /\ UNCHANGED <<ret, keep_window_open_, frame_buffer_resized_, resize_requested_,
                   current_frame_, swap_chain_, swap_chain_images_,
                   swap_chain_image_format_, swap_chain_extent_, swap_chain_image_views_,
                   swap_chain_frame_buffers_, render_pass_format, command_buffers_,
                   image_available_semaphores_, render_finished_semaphores_, in_flight_fences_,
                   result, imageIndex, gfxQueue, presentQueue,
                   acquired, live, destroyedTwice, gen, frame>>

FaultNext ==
    \/ Next
    \/ DfWaitForFencesFails
    \/ DfResetFails
    \/ RunWaitIdleFails

FaultSpec == Init /\ [][FaultNext]_vars

\* ------------------------------------------------- a changing format list
\* The program on a surface whose format list may differ from one query to
\* the next: with or without the preferred format.
ChangingFormatLists == FormatLists \cup {<<R8G8B8A8_UNORM>>}

FormatInit ==
    /\ Constructed
    /\ platform = [DefaultPlatform EXCEPT !.formatLists = ChangingFormatLists]

FormatSpec == FormatInit /\ [][Next]_vars

\* --------------------------------------- building one chain, all inputs
\* The surface capabilities and drawable sizes the first CreateSwapChain is
\* applied to: every image-count pair up to MaxMinImageCount + 1, extents
\* below, inside and above the supported range, currentExtent defined or the
\* undefined sentinel.  As Vulkan guarantees, minImageExtent <= currentExtent
\* <= maxImageExtent whenever currentExtent is defined.
Within(e, lo, hi) ==
    /\ lo.width <= e.width /\ e.width <= hi.width
    /\ lo.height <= e.height /\ e.height <= hi.height
BuildCapabilities ==
    {c \in [minImageCount : 1 .. (MaxMinImageCount + 1),
            maxImageCount : 0 .. (MaxMinImageCount + 1),
            currentExtent : {UndefinedExtent, Extent(1, 1), Extent(MaxSize, MaxSize),
                             Extent(800, 600), Extent(4096, 4096)},
            minImageExtent : {Extent(1, 1), Extent(800, 600)},
            maxImageExtent : {Extent(800, 600), Extent(4096, 4096)},
            formats : FormatLists,
            presentModes : {<<VK_PRESENT_MODE_FIFO_KHR>>}] :
        /\ ValidSupport(c)
        /\ Within(c.minImageExtent, c.minImageExtent, c.maxImageExtent)
        /\ c.currentExtent = UndefinedExtent
              \/ Within(c.currentExtent, c.minImageExtent, c.maxImageExtent)}
BuildDrawables == {Extent(w, h) : w \in {1, 800, 5000}, h \in {1, 600, 5000}}

BuildInit ==
    /\ Constructed
    /\ platform \in [devices : {DefaultPlatform.devices}, capabilities : BuildCapabilities,
                     drawable : BuildDrawables, windowSize : {InitialWindowSize},
                     formatLists : {FormatLists}]

\* Chim::CreateSwapChain (lines 752-809) as Init calls it, on the
\* capabilities and the drawable size the platform reports.
BuildFirstChain ==
    /\ pc = "main_init"
    /\ \E pick \in {PickPhysicalDevice(platform.devices)} :
       \E sc \in {CreateSwapChain(0, platform.capabilities, platform.drawable,
                                  FindQueueFamilies(platform.devices[pick.selected]),
                                  NoFailure, swap_chain_, swap_chain_images_,
                                  swap_chain_image_format_, swap_chain_extent_)} :
        /\ physical_device_' = pick.selected
        /\ createInfo' = sc.createInfo
        /\ swap_chain_' = sc.swap_chain
        /\ swap_chain_images_' = sc.images
        /\ swap_chain_image_format_' = sc.format
        /\ swap_chain_extent_' = sc.extent
        /\ live' = sc.created
    /\ pc' = "chain_built"
    /\ UNCHANGED <<platform, device_error, teardown, framebufferInfo>>
    /\ UNCHANGED <<ret, keep_window_open_, frame_buffer_resized_, resize_requested_,
                   current_frame_, swap_chain_image_views_,
                   swap_chain_frame_buffers_, render_pass_format, command_buffers_,
                   image_available_semaphores_, render_finished_semaphores_,
                   in_flight_fences_, result, imageIndex, gfxQueue, presentQueue,
                   acquired, destroyedTwice, gen, frame>>

BuildNext == BuildFirstChain

BuildSpec == BuildInit /\ [][BuildNext]_vars

\* ------------------------- building and rebuilding on a reported surface
\* What the surface reports while a chain is built: any image counts, the
\* extent defined or left to the application, the preferred format present
\* or not, mailbox offered or not.
RebuildCapabilities ==
    {c \in [minImageCount : 1 .. MaxMinImageCount,
            maxImageCount : {0, MaxMinImageCount},
            currentExtent : WindowSizes \cup {UndefinedExtent},
            minImageExtent : {Extent(1, 1)},
            maxImageExtent : {Extent(MaxSize, MaxSize)},
            formats : ChangingFormatLists,
            presentModes : {<<VK_PRESENT_MODE_FIFO_KHR>>,
                            <<VK_PRESENT_MODE_FIFO_KHR, VK_PRESENT_MODE_MAILBOX_KHR>>}] :
        ValidSupport(c)}

\* Drawable sizes: the window sizes and one beyond maxImageExtent.
RebuildDrawables == WindowSizes \cup {Extent(MaxSize + 1, MaxSize + 1)}

RebuildPlatforms ==
    [devices : {DefaultPlatform.devices}, capabilities : RebuildCapabilities,
     drawable : RebuildDrawables, windowSize : WindowSizes, formatLists : {FormatLists}]

\* Run has seen frame_buffer_resized_ in its first iteration, cleared it and
\* called RecreateSwapChain (lines 71-75): everything Init creates is alive,
\* the chain is the one Init built on the capabilities old, nothing has
\* been drawn.
RebuildStart ==
    \E old \in {y \in SurfaceSupport : ValidSupport(y)} :
        LET sc == CreateSwapChain(0, old, InitialWindowSize,
                                  FindQueueFamilies(DefaultPlatform.devices[1]), NoFailure,
                                  Null, <<>>, "VK_FORMAT_UNDEFINED", Extent(0, 0))
            iv == CreateImageViews(0, sc.images, sc.format, <<>>, NoFailure)
            fb == CreateFrameBuffers(0, iv.views, sc.extent, sc.format, <<>>, NoFailure)
        IN  /\ pc = "recreate"
            /\ ret = "df_wait"
            /\ keep_window_open_ = TRUE
            /\ frame_buffer_resized_ = FALSE
            /\ resize_requested_ = FALSE
            /\ current_frame_ = 0
            /\ swap_chain_ = sc.swap_chain
            /\ swap_chain_images_ = sc.images
            /\ swap_chain_image_format_ = sc.format
            /\ swap_chain_extent_ = sc.extent
            /\ swap_chain_image_views_ = iv.views
            /\ swap_chain_frame_buffers_ = fb.frame_buffers
            /\ render_pass_format = sc.format
            /\ command_buffers_ = [s \in Slots |-> NoRecording]
            /\ image_available_semaphores_ = [s \in Slots |-> 0]
            /\ render_finished_semaphores_ = [s \in Slots |-> 0]
            /\ in_flight_fences_ = [s \in Slots |-> TRUE]
            /\ result = NoResult
            /\ imageIndex = 0
            /\ gfxQueue = <<>>
            /\ presentQueue = <<>>
            /\ acquired = {}
            /\ live = sc.created \cup iv.created \cup fb.created \cup SyncObjects
                        \cup {Handle(k, 0, 0) : k \in {"window", "instance", "surface", "device",
                                                       "render_pass", "pipeline_layout",
                                                       "pipeline", "command_pool"}}
            /\ destroyedTwice = {}
            /\ gen = 0
            /\ frame = NoFrame
            /\ physical_device_ = 1
            /\ device_error = NoResult
            /\ teardown = <<>>
            /\ createInfo = sc.createInfo
            /\ framebufferInfo = fb.info

\* The program is about to build its first chain, or about to rebuild the
\* chain, on a surface whose report stays the same during the build.
RebuildInit ==
    /\ platform \in RebuildPlatforms
    /\ Constructed \/ RebuildStart

\* Chim::RecreateSwapChain on what the platform reports.
RecreateSwapChainReported ==
    RecreateSwapChainOn(platform.capabilities, platform.windowSize, platform.drawable)

RebuildNext == BuildFirstChain \/ RecreateSwapChainReported

RebuildSpec == RebuildInit /\ [][RebuildNext]_vars

\* ------------------- choosing format, present mode and sharing, all lists
\* Surface formats besides the two of FormatLists: the preferred format in
\* another colour space, and another format in the preferred colour space.
B8G8R8A8_SRGB_P3 ==
    [format |-> "VK_FORMAT_B8G8R8A8_SRGB", colorSpace |-> "VK_COLOR_SPACE_DISPLAY_P3_NONLINEAR_EXT"]
B8G8R8A8_UNORM ==
    [format |-> "VK_FORMAT_B8G8R8A8_UNORM", colorSpace |-> "VK_COLOR_SPACE_SRGB_NONLINEAR_KHR"]

\* Non-empty sequences over S of at most n entries.
SeqsUpTo(S, n) == UNION {[1 .. k -> S] : k \in 1 .. n}

\* IsDeviceSuitable (line 567) lets only non-empty lists through, and every
\* surface supports VK_PRESENT_MODE_FIFO_KHR.
ChooseFormatLists ==
    SeqsUpTo({B8G8R8A8_SRGB, R8G8B8A8_UNORM, B8G8R8A8_SRGB_P3, B8G8R8A8_UNORM}, MaxListLen)
ChoosePresentModeLists ==
    {pm \in SeqsUpTo({VK_PRESENT_MODE_FIFO_KHR, VK_PRESENT_MODE_MAILBOX_KHR,
                      VK_PRESENT_MODE_IMMEDIATE_KHR}, MaxListLen) :
        \E k \in 1 .. Len(pm) : pm[k] = VK_PRESENT_MODE_FIFO_KHR}
\* Queue family layouts with a graphics and a present family.
ChooseFamilies ==
    {f \in SeqsUpTo({Family(TRUE, FALSE), Family(FALSE, TRUE), Family(TRUE, TRUE),
                     Family(FALSE, FALSE)}, MaxListLen) :
        isComplete(FindQueueFamiliesFrom(f, 1, [graphicsFamily |-> -1, presentFamily |-> -1]))}

ChooseInit ==
    /\ Constructed
    /\ platform \in
        [devices : {<<PhysicalDevice(DISCRETE_GPU, 4096, TRUE, f, device_extensions_,
                                     <<B8G8R8A8_SRGB>>, <<VK_PRESENT_MODE_FIFO_KHR>>)>> :
                        f \in ChooseFamilies},
         capabilities : {[DefaultPlatform.capabilities EXCEPT !.formats = fl,
                                                              !.presentModes = pm] :
                            fl \in ChooseFormatLists, pm \in ChoosePresentModeLists},
         drawable : {InitialWindowSize},
         windowSize : {InitialWindowSize},
         formatLists : {FormatLists}]

ChooseSpec == ChooseInit /\ [][BuildNext]_vars

\* ------------------------------------ selecting a device, all device lists
DeviceLists ==
    UNION {[1 .. n -> DeviceSpace] : n \in 0 .. MaxDevices}

SelectInit ==
    /\ Constructed
    /\ platform \in [devices : DeviceLists, capabilities : {DefaultPlatform.capabilities},
                     drawable : {InitialWindowSize}, windowSize : {InitialWindowSize},
                     formatLists : {FormatLists}]

\* Chim::PickPhysicalDevice (lines 442-473) as Init calls it, on the devices
\* the platform enumerates.
SelectPhysicalDevice ==
    /\ pc = "main_init"
    /\ \E pick \in {PickPhysicalDevice(platform.devices)} :
        /\ physical_device_' = pick.selected
        /\ pc' = IF pick.thrown THEN "exit_failure" ELSE "device_picked"
    /\ UNCHANGED <<platform, device_error, teardown, createInfo, framebufferInfo>>
    /\ UNCHANGED <<ret, keep_window_open_, frame_buffer_resized_, resize_requested_,
                   current_frame_, swap_chain_, swap_chain_images_,
                   swap_chain_image_format_, swap_chain_extent_, swap_chain_image_views_,
                   swap_chain_frame_buffers_, render_pass_format, command_buffers_,
                   image_available_semaphores_, render_finished_semaphores_,
                   in_flight_fences_, result, imageIndex, gfxQueue, presentQueue,
                   acquired, live, destroyedTwice, gen, frame>>

SelectNext == SelectPhysicalDevice

SelectSpec == SelectInit /\ [][SelectNext]_vars

\* ------------------------------------------------------------ properties
Pending(s) == \E k \in 1 .. Len(gfxQueue) : gfxQueue[k].slot = s
Unsignaled == {s \in Slots : ~in_flight_fences_[s]}
AcquireSucceeded == {VK_SUCCESS, VK_SUBOPTIMAL_KHR}

\* C1: a fence goes from signaled to unsignaled only in the reset of
\* DrawFrame (lines 135-138), for the slot current_frame_, and only when the
\* acquire of this same call returned VK_SUCCESS or VK_SUBOPTIMAL_KHR; with
\* an out-of-date or failed acquire no fence is reset.
C1_FenceResetOnlyAfterAcquire ==
    [][\A s \in Slots :
        (in_flight_fences_[s] /\ ~in_flight_fences_'[s]) =>
            /\ s = current_frame_
            /\ pc = "df_record"
            /\ result \in AcquireSucceeded
            /\ frame.acquire = result
            /\ frame.slot = s]_vars

\* The fence of the current slot has been reset after a suboptimal acquire.
C1_Witness ==
    /\ pc = "df_submit"
    /\ ~in_flight_fences_[current_frame_]
    /\ result = VK_SUBOPTIMAL_KHR

\* C2: the reset and re-recording of a slot's command buffer happens only in
\* DrawFrame past the fence wait, for the slot current_frame_, when no
\* submission of that slot is pending on the graphics queue; and a signaled
\* fence means the slot has no pending submission.
C2_RecordOnlyRetired ==
    /\ [](\A s \in Slots : in_flight_fences_[s] => ~Pending(s))
    /\ [][/\ (pc = "df_record" /\ pc' # pc) => ~Pending(current_frame_)
          /\ \A s \in Slots :
                (command_buffers_'[s] # command_buffers_[s]
                    /\ command_buffers_'[s].state # "invalid") =>
                        (pc = "df_record" /\ s = current_frame_ /\ ~Pending(s))]_vars

\* A slot's buffer, recorded in an earlier frame, is about to be recorded
\* again while the other slot's submission is still pending.
C2_Witness ==
    /\ pc = "df_record"
    /\ command_buffers_[current_frame_].state = "executable"
    /\ gfxQueue # <<>>

\* C3: at most MAX_FRAMES_IN_FLIGHT submissions are pending, each on a slot
\* of its own whose fence is unsignaled, so at most MAX_FRAMES_IN_FLIGHT
\* fences are unsignaled.
C3_BoundedInFlight ==
    /\ Len(gfxQueue) <= MAX_FRAMES_IN_FLIGHT
    /\ \A k \in 1 .. Len(gfxQueue) :
        /\ ~in_flight_fences_[gfxQueue[k].slot]
        /\ \A j \in 1 .. Len(gfxQueue) : gfxQueue[j].slot = gfxQueue[k].slot => j = k
    /\ Len(gfxQueue) <= Cardinality(Unsignaled)
    /\ Cardinality(Unsignaled) <= MAX_FRAMES_IN_FLIGHT

\* Every slot has a submission pending.
C3_Witness ==
    /\ Len(gfxQueue) = MAX_FRAMES_IN_FLIGHT
    /\ Unsignaled = Slots

\* C4: the fence DrawFrame waits on is either signaled already or belongs to
\* a submission still pending on the graphics queue, and the queue retires
\* every submission it holds, so every fence wait returns.
C4_WaitReturns ==
    /\ [](pc = "df_wait" => (in_flight_fences_[current_frame_] \/ Pending(current_frame_)))
    /\ ((pc = "df_wait") ~> (pc = "df_acquire"))

\* DrawFrame is blocked in the wait: the fence of its slot is unsignaled.
C4_Witness ==
    /\ pc = "df_wait"
    /\ ~in_flight_fences_[current_frame_]
    /\ Pending(current_frame_)

DrawFrameTail == {"df_record", "df_submit", "df_present", "df_present_check",
                  "df_resize_check", "df_advance"}

\* C5: from an acquire that returned VK_ERROR_OUT_OF_DATE_KHR until the next
\* acquire, no fence is reset, no command buffer is recorded, nothing is
\* submitted or presented and DrawFrame executes none of its later steps;
\* DrawFrame rebuilt the chain exactly once; the next acquire runs on the same
\* slot on a chain built after the stale one, and when it succeeds the frame
\* is recorded against a live image of that chain.
C5_OutOfDateAcquire ==
    /\ [][frame'.acquire = VK_ERROR_OUT_OF_DATE_KHR =>
            /\ \A s \in Slots : in_flight_fences_[s] => in_flight_fences_'[s]
            /\ \A s \in Slots : command_buffers_'[s] # command_buffers_[s] =>
                                    command_buffers_'[s].state = "invalid"
            /\ Len(gfxQueue') <= Len(gfxQueue)
            /\ Len(presentQueue') <= Len(presentQueue)
            /\ pc' \notin DrawFrameTail]_vars
    /\ [](frame.acquire = VK_ERROR_OUT_OF_DATE_KHR =>
            /\ current_frame_ = frame.slot
            /\ frame.rebuilds = IF (pc = "recreate" /\ ret = "run_head") \/ pc = "df_acquire"
                                THEN 0 ELSE 1
            /\ pc = "df_acquire" =>
                /\ gen > frame.gen
                /\ swap_chain_ = Handle("swapchain", gen, 0)
                /\ swap_chain_ \in live)
    /\ [](frame.afterOutOfDate /\ pc \in {"df_record", "df_submit", "df_present"} =>
            /\ frame.acquire \in AcquireSucceeded
            /\ current_frame_ = frame.slot
            /\ imageIndex + 1 \in 1 .. Len(swap_chain_images_)
            /\ swap_chain_images_[imageIndex + 1] = Handle("image", gen, imageIndex + 1)
            /\ swap_chain_images_[imageIndex + 1] \in live \cap acquired
            /\ pc # "df_record" =>
                /\ command_buffers_[current_frame_].state = "executable"
                /\ command_buffers_[current_frame_].framebuffer
                       = Handle("framebuffer", gen, imageIndex + 1)
                /\ command_buffers_[current_frame_].framebuffer \in live)

\* The frame after an out-of-date acquire on slot 1 was presented.
C5_Witness ==
    /\ pc = "df_present_check"
    /\ frame.afterOutOfDate
    /\ frame.acquire = VK_SUCCESS
    /\ result = VK_SUCCESS
    /\ frame.slot = 1
    /\ gen >= 1

\* C6: when the acquire returned VK_SUBOPTIMAL_KHR the frame is recorded,
\* submitted and presented, and DrawFrame has rebuilt the chain by the time
\* it reaches the slot advance, whatever the present call returned.
C6_SuboptimalAcquireRebuilds ==
    (pc = "df_resize_check" /\ frame.acquire = VK_SUBOPTIMAL_KHR) => frame.rebuilds >= 1

\* C7: when vkQueuePresentKHR returned out of date or suboptimal, or
\* frame_buffer_resized_ is set at the test, DrawFrame calls RecreateSwapChain
\* right after the present and continues at the slot advance; between the
\* present and the return nothing more is submitted or presented; the chain
\* was rebuilt once and current_frame_ advances by one modulo
\* MAX_FRAMES_IN_FLIGHT.
C7_StalePresent ==
    /\ [][(pc = "df_present_check" /\ pc' # pc
                /\ (result \in Staleness \/ frame_buffer_resized_)) =>
            (pc' = "recreate" /\ ret' = "df_resize_check")]_vars
    /\ [][(frame.present \in Staleness /\ pc \in {"df_present_check", "recreate",
                                                   "df_resize_check"}) =>
            /\ Len(presentQueue') <= Len(presentQueue)
            /\ Len(gfxQueue') <= Len(gfxQueue)
            /\ pc' \notin {"df_acquire", "df_record", "df_submit", "df_present"}]_vars
    /\ [](frame.present \in Staleness /\ pc = "df_resize_check" =>
            /\ frame.rebuilds = 1
            /\ gen > frame.gen
            /\ current_frame_ = frame.slot)
    /\ [][(frame.present \in Staleness /\ pc = "df_resize_check" /\ pc' # pc) =>
            /\ pc' = "run_head"
            /\ current_frame_' = (frame.slot + 1) % MAX_FRAMES_IN_FLIGHT]_vars

\* The chain was rebuilt after an out-of-date present; the slot has not
\* advanced yet.
C7_Witness ==
    /\ pc = "df_resize_check"
    /\ frame.acquire = VK_SUCCESS
    /\ frame.present = VK_ERROR_OUT_OF_DATE_KHR
    /\ frame.rebuilds = 1

\* C8: an acquire result of out of date rebuilds and returns, suboptimal or
\* success goes on to record, and any other result throws; a present result
\* of out of date or suboptimal rebuilds, success goes on, and any other
\* result throws; after such a throw the chain has not been rebuilt, the
\* slot has not advanced, and nothing changes any more.
C8_OnlyStalenessAbsorbed ==
    /\ [][(pc = "df_acquire" /\ pc' # pc) =>
            pc' = CASE result' = VK_ERROR_OUT_OF_DATE_KHR -> "recreate"
                    [] result' \in AcquireSucceeded -> "df_record"
                    [] OTHER -> "exit_failure"]_vars
    /\ [][(pc = "df_present_check" /\ pc' # pc) =>
            pc' = CASE result \in Staleness -> "recreate"
                    [] result = VK_SUCCESS -> "df_resize_check"
                    [] OTHER -> "exit_failure"]_vars
    /\ []((pc = "exit_failure" /\ NoResult # result /\ result \notin AcquireSucceeded
                /\ result \notin Staleness) =>
            /\ frame.rebuilds = 0
            /\ gen = frame.gen
            /\ current_frame_ = frame.slot)
    /\ []((pc \in {"recreate", "df_resize_check", "df_advance"} /\ ret # "df_wait") =>
            result \in {VK_SUCCESS} \cup Staleness)
    /\ [][pc = "exit_failure" => UNCHANGED <<gen, current_frame_, live, swap_chain_>>]_vars

\* vkQueuePresentKHR failed with a result that is not a staleness code and
\* DrawFrame threw.
C8_Witness ==
    /\ pc = "exit_failure"
    /\ frame.present = VK_ERROR_SURFACE_LOST_KHR
    /\ result = VK_ERROR_SURFACE_LOST_KHR
    /\ frame.rebuilds = 0

ChainKinds == {"swapchain", "image", "view", "framebuffer"}
ChainLive == {x \in live : x[1] \in ChainKinds}
ChainOwned ==
    ({swap_chain_} \cup Range(swap_chain_images_) \cup Range(swap_chain_image_views_)
        \cup Range(swap_chain_frame_buffers_)) \ {Null}

\* C9: a chain object is destroyed only by RecreateSwapChain or Cleanup and
\* only while both queues are empty; Cleanup starts with both queues empty;
\* every framebuffer a pending submission draws to and every swapchain and
\* image a pending present names is alive.
C9_NoDestroyWhileOutstanding ==
    /\ [][(live \ live') # {} =>
            (DeviceIdle /\ pc \in {"recreate", "main_cleanup"})]_vars
    /\ [](pc = "main_cleanup" => DeviceIdle)
    /\ [](\A k \in 1 .. Len(gfxQueue) : gfxQueue[k].framebuffer \in live)
    /\ [](\A k \in 1 .. Len(presentQueue) :
            presentQueue[k].swapchain \in live /\ presentQueue[k].image \in live)

\* The first chain was destroyed by the rebuild after a stale present; the
\* command buffer submitted in this frame drew to one of its framebuffers.
C9_Witness ==
    /\ pc = "df_resize_check"
    /\ frame.present \in Staleness
    /\ frame.rebuilds = 1
    /\ command_buffers_[frame.slot].state = "invalid"
    /\ Handle("swapchain", 0, 0) \notin live
    /\ DeviceIdle

\* C10: no handle is destroyed twice; the chain objects alive are those of
\* the newest chain only, so every object of an earlier build was destroyed
\* by the rebuild that followed it; while the program runs the members hold
\* one complete chain (swapchain, one view and one framebuffer per image, all
\* alive); after Cleanup nothing is alive.
C10_DestroyedExactlyOnce ==
    /\ destroyedTwice = {}
    /\ \A x \in ChainLive : x[2] = gen
    /\ pc \notin {"main_init", "exit_failure", "exit_success"} =>
        /\ ChainLive = ChainOwned
        /\ swap_chain_ = Handle("swapchain", gen, 0)
        /\ Len(swap_chain_images_) >= 1
        /\ Len(swap_chain_image_views_) = Len(swap_chain_images_)
        /\ Len(swap_chain_frame_buffers_) = Len(swap_chain_images_)
        /\ \A i \in 1 .. Len(swap_chain_images_) :
            /\ swap_chain_images_[i] = Handle("image", gen, i)
            /\ swap_chain_image_views_[i] = Handle("view", gen, i)
            /\ swap_chain_frame_buffers_[i] = Handle("framebuffer", gen, i)
    /\ pc = "exit_success" => live = {}

\* Two out-of-date acquires in consecutive iterations: the chain was rebuilt
\* twice with no frame drawn in between.
C10_Witness ==
    /\ pc = "run_head"
    /\ frame.afterOutOfDate
    /\ frame.acquire = VK_ERROR_OUT_OF_DATE_KHR
    /\ frame.rebuilds = 1
    /\ frame.gen = 1
    /\ gen = 2

\* The chain is completely built: Init returned and no build has thrown.
ChainBuilt == pc \notin {"main_init", "exit_failure"}

\* C11: whenever Init has returned and no rebuild has thrown, the three chain
\* vectors have the same length, the view at index i wraps the image at
\* index i and the framebuffer at index i has the view at index i as its
\* attachment; until Cleanup all of them are alive.
C11_VectorsAligned ==
    ChainBuilt =>
        /\ Len(swap_chain_image_views_) = Len(swap_chain_images_)
        /\ Len(swap_chain_frame_buffers_) = Len(swap_chain_images_)
        /\ \A i \in 1 .. Len(swap_chain_images_) :
            /\ swap_chain_images_[i][1] = "image"
            /\ swap_chain_image_views_[i]
                   = Handle("view", swap_chain_images_[i][2], swap_chain_images_[i][3])
            /\ swap_chain_frame_buffers_[i]
                   = Handle("framebuffer", swap_chain_images_[i][2], swap_chain_images_[i][3])
            /\ pc # "exit_success" =>
                {swap_chain_images_[i], swap_chain_image_views_[i],
                 swap_chain_frame_buffers_[i]} \subseteq live

\* The rebuild after a present of the third image of the old chain produced
\* a chain of two images.
C11_Witness ==
    /\ pc = "df_resize_check"
    /\ frame.rebuilds = 1
    /\ imageIndex = 2
    /\ Len(swap_chain_images_) = 2
    /\ Len(swap_chain_frame_buffers_) = 2

\* C12: the chain CreateSwapChain builds has minImageCount + 1 images
\* clamped into [minImageCount, maxImageCount], where maxImageCount = 0 puts
\* no upper limit; minImageCount = 2 with maxImageCount = 0 gives 3 images
\* and minImageCount = 3 with maxImageCount = 3 gives 3.
C12_ImageCount ==
    pc = "chain_built" =>
        LET min == platform.capabilities.minImageCount
            max == platform.capabilities.maxImageCount
            n == Len(swap_chain_images_)
        IN  /\ n = IF max = 0 THEN Max(min + 1, min) ELSE Clamp(min + 1, min, max)
            /\ n >= min
            /\ max > 0 => n <= max
            /\ (min = 2 /\ max = 0) => n = 3
            /\ (min = 3 /\ max = 3) => n = 3

\* The request of 4 images was clamped down to maxImageCount = 3.
C12_Witness ==
    /\ pc = "chain_built"
    /\ platform.capabilities.minImageCount = 3
    /\ platform.capabilities.maxImageCount = 3
    /\ Len(swap_chain_images_) = 3

\* C13: the extent of the chain lies within [minImageExtent, maxImageExtent]
\* in each component; it is currentExtent whenever currentExtent is not the
\* undefined sentinel, and the drawable size clamped in each component
\* otherwise; the sentinel with drawable 800 x 600, minimum 1 x 1 and maximum
\* 4096 x 4096 gives 800 x 600.
C13_Extent ==
    pc = "chain_built" =>
        LET c == platform.capabilities
            d == platform.drawable
            e == swap_chain_extent_
        IN  /\ Within(e, c.minImageExtent, c.maxImageExtent)
            /\ c.currentExtent # UndefinedExtent => e = c.currentExtent
            /\ c.currentExtent = UndefinedExtent =>
                /\ e.width = Max(c.minImageExtent.width, Min(d.width, c.maxImageExtent.width))
                /\ e.height = Max(c.minImageExtent.height,
                                  Min(d.height, c.maxImageExtent.height))
            /\ (/\ c.currentExtent = UndefinedExtent
                /\ d = Extent(800, 600)
                /\ c.minImageExtent = Extent(1, 1)
                /\ c.maxImageExtent = Extent(4096, 4096)) => e = Extent(800, 600)

\* A drawable size above the maximum in width and below the minimum in
\* height was clamped in both components.
C13_Witness ==
    /\ pc = "chain_built"
    /\ platform.capabilities.currentExtent = UndefinedExtent
    /\ platform.drawable = Extent(5000, 1)
    /\ platform.capabilities.minImageExtent = Extent(800, 600)
    /\ platform.capabilities.maxImageExtent = Extent(4096, 4096)
    /\ swap_chain_extent_ = Extent(4096, 600)

Enumerated == 1 .. Len(platform.devices)
Score(i) == RateDeviceSuitability(platform.devices[i])
Picked == pc \in {"device_picked", "exit_failure"}

\* C14: when some enumerated device scores above zero PickPhysicalDevice
\* returns with physical_device_ a device of the list whose score is the
\* greatest of the list; when the list is empty or no device scores above
\* zero it throws and physical_device_ stays null.
C14_HighestScore ==
    Picked =>
        IF \E i \in Enumerated : Score(i) > 0
        THEN /\ pc = "device_picked"
             /\ physical_device_ \in Enumerated
             /\ \A j \in Enumerated : Score(physical_device_) >= Score(j)
        ELSE /\ pc = "exit_failure"
             /\ physical_device_ = 0

\* The first of two devices with different positive scores was selected.
C14_Witness ==
    /\ pc = "device_picked"
    /\ Len(platform.devices) = 2
    /\ physical_device_ = 1
    /\ Score(1) > Score(2)
    /\ Score(2) > 0

OtherwiseSuitable(type, dim, geometry) ==
    PhysicalDevice(type, dim, geometry, <<Family(TRUE, TRUE)>>, device_extensions_,
                   <<B8G8R8A8_SRGB>>, <<VK_PRESENT_MODE_FIFO_KHR>>)

\* C15: a device without geometry shaders scores 0 whatever its type and
\* maxImageDimension2D and is never selected; of an integrated device with
\* maxImageDimension2D 8192 and no geometry shader and a discrete device
\* with 4096 and geometry shaders, the discrete one is selected in either
\* enumeration order.
C15_GeometryShaderRequired ==
    /\ \A i \in Enumerated : ~platform.devices[i].geometryShader => Score(i) = 0
    /\ pc = "device_picked" => platform.devices[physical_device_].geometryShader
    /\ (Picked /\ Len(platform.devices) = 2
            /\ Range(platform.devices) = {OtherwiseSuitable(INTEGRATED_GPU, 8192, FALSE),
                                          OtherwiseSuitable(DISCRETE_GPU, 4096, TRUE)}) =>
        /\ pc = "device_picked"
        /\ platform.devices[physical_device_] = OtherwiseSuitable(DISCRETE_GPU, 4096, TRUE)

\* The discrete device was selected with the integrated one enumerated last.
C15_Witness ==
    /\ pc = "device_picked"
    /\ platform.devices = <<OtherwiseSuitable(DISCRETE_GPU, 4096, TRUE),
                            OtherwiseSuitable(INTEGRATED_GPU, 8192, FALSE)>>
    /\ physical_device_ = 1

\* What the device is missing for presenting to the surface.
Lacking(device) ==
    \/ \A k \in 1 .. Len(device.queueFamilies) : ~device.queueFamilies[k].graphics
    \/ \A k \in 1 .. Len(device.queueFamilies) : ~device.queueFamilies[k].present
    \/ VK_KHR_SWAPCHAIN_EXTENSION_NAME \notin device.extensions
    \/ Len(device.formats) = 0
    \/ Len(device.presentModes) = 0

\* C16: a device without a graphics queue family, without a queue family
\* that presents to the surface, without the swapchain extension, without a
\* surface format or without a present mode scores 0 and is never selected.
C16_UnsuitableNeverSelected ==
    /\ \A i \in Enumerated : Lacking(platform.devices[i]) => Score(i) = 0
    /\ pc = "device_picked" => ~Lacking(platform.devices[physical_device_])

\* A device without present modes was enumerated last and passed over.
C16_Witness ==
    /\ pc = "device_picked"
    /\ Len(platform.devices) = 2
    /\ platform.devices[2].presentModes = <<>>
    /\ ~Lacking([platform.devices[2] EXCEPT !.presentModes = <<VK_PRESENT_MODE_FIFO_KHR>>])
    /\ physical_device_ = 1

\* The control thread is inside DrawFrame (RecreateSwapChain called from
\* DrawFrame included).
InDrawFrame ==
    \/ pc \in {"df_wait", "df_acquire"} \cup DrawFrameTail
    \/ pc = "recreate" /\ ret # "df_wait"

\* C17 as stated: every DrawFrame that returns to the loop has issued its
\* submit and its present.
C17_DrawFrameAlwaysPresents ==
    [][(InDrawFrame /\ pc' = "run_head") => frame.present # NoResult]_vars

\* C17: keep_window_open_ changes only in the event loop and only to false;
\* Run leaves its loop only at the loop test with the flag false; DrawFrame is
\* left only by its return or by a throw, and it returns only after issuing
\* its submit and present or after the rebuild for an out-of-date acquire;
\* Cleanup is entered only from the device-idle wait of Run, with both
\* queues empty, and nothing is destroyed after the loop before Cleanup.
C17_CooperativeStop ==
    /\ [][keep_window_open_' # keep_window_open_ =>
            (pc = "run_poll" /\ ~keep_window_open_')]_vars
    /\ [][(pc' = "run_wait_idle" /\ pc # pc') =>
            (pc = "run_head" /\ ~keep_window_open_)]_vars
    /\ [][(InDrawFrame /\ ~InDrawFrame') => pc' \in {"run_head", "exit_failure"}]_vars
    /\ [][(InDrawFrame /\ pc' = "run_head") =>
            \/ frame.present # NoResult
            \/ frame.acquire = VK_ERROR_OUT_OF_DATE_KHR /\ frame.present = NoResult]_vars
    /\ [][(pc' = "df_present" /\ pc # pc') =>
            gfxQueue' = Append(gfxQueue, [slot |-> current_frame_,
                                          framebuffer |-> swap_chain_frame_buffers_[imageIndex + 1]])]_vars
    /\ [][(pc' = "main_cleanup" /\ pc # pc') => (pc = "run_wait_idle" /\ DeviceIdle)]_vars
    /\ [](pc = "main_cleanup" => (DeviceIdle /\ ~keep_window_open_ /\ ~InDrawFrame))
    /\ [][(live \ live') # {} /\ pc \in {"run_wait_idle", "main_cleanup", "exit_success"} =>
            (pc = "main_cleanup" /\ DeviceIdle)]_vars

\* The quit event was received and the DrawFrame of that iteration has
\* submitted and presented its frame.
C17_Witness ==
    /\ ~keep_window_open_
    /\ pc = "df_present_check"
    /\ result = VK_SUCCESS
    /\ gfxQueue # <<>>

\* Everything Init creates exists and a device was selected.
InitComplete ==
    /\ physical_device_ # 0
    /\ {Handle(k, 0, 0) : k \in {"window", "instance", "surface", "device", "render_pass",
                                 "pipeline_layout", "pipeline", "command_pool"}}
           \cup SyncObjects \subseteq live
    /\ \A s \in Slots : in_flight_fences_[s]

\* The chain is whole: a live swapchain with at least one image, and a live
\* view and a live framebuffer for every image.
ChainComplete ==
    /\ swap_chain_ \in live
    /\ Len(swap_chain_images_) > 0
    /\ Len(swap_chain_image_views_) = Len(swap_chain_images_)
    /\ Len(swap_chain_frame_buffers_) = Len(swap_chain_images_)
    /\ \A i \in 1 .. Len(swap_chain_images_) :
        /\ swap_chain_image_views_[i] = Handle("view", swap_chain_images_[i][2], i)
        /\ swap_chain_frame_buffers_[i] = Handle("framebuffer", swap_chain_images_[i][2], i)
        /\ {swap_chain_images_[i], swap_chain_image_views_[i],
            swap_chain_frame_buffers_[i]} \subseteq live

\* C18: Init goes on to Run only with every object created, and otherwise
\* main ends with the failure status; RecreateSwapChain returns only with a
\* whole new chain, and otherwise main ends with the failure status; a
\* command buffer whose recording did not begin or end is never submitted,
\* main ends with the failure status instead; and once main has ended that
\* way nothing is acquired, submitted, presented or created any more and
\* the status stays.
C18_CreationFailuresAreFatal ==
    /\ [][(pc = "main_init" /\ pc' # pc) =>
            (/\ pc' \in {"run_head", "exit_failure"}
             /\ (pc' = "run_head" => (InitComplete' /\ ChainComplete')))]_vars
    /\ [][(pc = "recreate" /\ pc' # pc) =>
            (/\ pc' \in {ret, "exit_failure"}
             /\ (pc' = ret => (ChainComplete' /\ swap_chain_' = Handle("swapchain", gen + 1, 0))))]_vars
    /\ [][(pc = "df_record" /\ pc' # pc) =>
            (/\ pc' \in {"df_submit", "exit_failure"}
             /\ (pc' = "df_submit" => command_buffers_'[current_frame_].state = "executable"))]_vars
    /\ [][pc = "exit_failure" =>
            (/\ pc' = "exit_failure"
             /\ acquired' \subseteq acquired
             /\ Len(gfxQueue') <= Len(gfxQueue)
             /\ Len(presentQueue') <= Len(presentQueue)
             /\ live' \subseteq live)]_vars

\* main ended with the failure status because the recording of a command
\* buffer did not end, with an earlier frame still on the graphics queue.
C18_Witness ==
    /\ pc = "exit_failure"
    /\ command_buffers_[current_frame_].state = "invalid"
    /\ command_buffers_[current_frame_].framebuffer # Null
    /\ gfxQueue # <<>>

\* C19: whenever a device call of the frame loop has returned a failure that
\* is not a staleness code, main has ended with the failure status.
C19_NoErrorSwallowed ==
    device_error # NoResult => pc = "exit_failure"

\* What Init has made so far, by creation step; the views and the
\* framebuffers count once there is one for every image.
Made(stage) ==
    CASE stage = "device" -> Handle("device", 0, 0) \in live
      [] stage = "swapchain" -> Handle("swapchain", 0, 0) \in live
      [] stage = "view" ->
            /\ swap_chain_images_ # <<>>
            /\ \A i \in 1 .. Len(swap_chain_images_) : Handle("view", 0, i) \in live
      [] stage = "render_pass" -> Handle("render_pass", 0, 0) \in live
      [] stage = "pipeline" -> Handle("pipeline", 0, 0) \in live
      [] stage = "framebuffer" ->
            /\ swap_chain_images_ # <<>>
            /\ \A i \in 1 .. Len(swap_chain_images_) : Handle("framebuffer", 0, i) \in live
      [] stage = "command_pool" -> Handle("command_pool", 0, 0) \in live
      [] stage = "sync" -> SyncObjects \subseteq live

\* Init threw: main ended with the failure status before the loop started.
StartupFailed == pc = "exit_failure" /\ ~Made("sync")

\* C20 as stated: nothing of the presentation chain exists before the
\* render pass and the pipeline do.
C20_PipelineBeforeChain ==
    StartupFailed =>
        ((Made("swapchain") \/ \E h \in live : h[1] \in {"view", "framebuffer"}) =>
            (Made("render_pass") /\ Made("pipeline")))

\* C20: when Init throws, what it has made is a prefix of device, swapchain,
\* image views, render pass, pipeline, framebuffers, command pool, sync
\* objects; no view exists without the swapchain and no framebuffer without
\* the pipeline; and Run is entered only with all of it made.
C20_StartupOrder ==
    /\ [](StartupFailed =>
            /\ \A k \in 1 .. 7 :
                LET order == <<"device", "swapchain", "view", "render_pass", "pipeline",
                               "framebuffer", "command_pool", "sync">>
                IN  Made(order[k + 1]) => Made(order[k])
            /\ (\E h \in live : h[1] = "view") => Made("swapchain")
            /\ (\E h \in live : h[1] = "framebuffer") => Made("pipeline"))
    /\ [][(pc = "main_init" /\ pc' = "run_head") =>
            \A st \in {"device", "swapchain", "view", "render_pass", "pipeline",
                       "framebuffer", "command_pool", "sync"} : Made(st)']_vars

\* Init threw at the render pass, with the swapchain and its views made.
C20_Witness ==
    /\ StartupFailed
    /\ Made("view")
    /\ ~Made("render_pass")

\* Position in teardown of the call that destroyed objects of this kind, 0
\* when none did.
Pos(kind) ==
    IF \E k \in 1 .. Len(teardown) : kind \in teardown[k]
    THEN CHOOSE k \in 1 .. Len(teardown) : kind \in teardown[k]
    ELSE 0

\* Kinds of object created from the logical device.
DeviceChildren ==
    {"framebuffer", "view", "swapchain", "pipeline", "pipeline_layout", "render_pass",
     "image_available", "render_finished", "fence", "command_pool"}
FrameSlotKinds == {"image_available", "render_finished", "fence", "command_pool"}

\* C21 as stated: Cleanup destroys the frame slots before the presentation
\* chain, the chain before the pipeline and the render pass, and those
\* before the device.
C21_SlotsThenChain ==
    pc = "exit_success" =>
        /\ \A a \in FrameSlotKinds, b \in {"framebuffer", "view", "swapchain"} :
            0 < Pos(a) /\ Pos(a) < Pos(b)
        /\ \A b \in {"framebuffer", "view", "swapchain"},
              c \in {"pipeline", "pipeline_layout", "render_pass"} : Pos(b) < Pos(c)
        /\ \A c \in {"pipeline", "pipeline_layout", "render_pass"} : Pos(c) < Pos("device")

\* C21: Cleanup destroys only with both queues empty; it destroys the
\* framebuffers, the views, the swapchain, then the pipeline, its layout and
\* the render pass, then the semaphores and fences, then the command pool,
\* then the device, then surface, instance and window; every kind of object
\* created from the device goes before the device, and nothing is left.
C21_TeardownOrder ==
    /\ [][teardown' # teardown => (pc = "main_cleanup" /\ DeviceIdle)]_vars
    /\ [](pc = "exit_success" =>
            /\ teardown = <<{"framebuffer"}, {"view"}, {"swapchain"}, {"pipeline"},
                            {"pipeline_layout"}, {"render_pass"},
                            {"image_available", "render_finished", "fence"},
                            {"command_pool"}, {"device"}, {"surface"}, {"instance"},
                            {"window"}>>
            /\ \A k \in DeviceChildren : 0 < Pos(k) /\ Pos(k) < Pos("device")
            /\ live = {}
            /\ destroyedTwice = {})
    /\ [](pc # "exit_success" => teardown = <<>>)

\* Cleanup has run on a chain that was rebuilt at least once.
C21_Witness ==
    /\ pc = "exit_success"
    /\ gen > 0
    /\ Pos("swapchain") < Pos("fence")

\* C22: once the chain is built, and after every rebuild, the chain's image
\* format is the format the render pass was created with at startup.
C22_FormatStable ==
    /\ [][(pc = "recreate" /\ pc' # pc /\ pc' # "exit_failure") =>
            swap_chain_image_format_' = swap_chain_image_format_]_vars
    /\ [](pc \notin {"main_init", "exit_failure"} =>
            swap_chain_image_format_ = render_pass_format)

\* C23: frame_buffer_resized_ is set only by the event polling; when it is
\* set at the test after polling, Run clears it and calls RecreateSwapChain
\* before DrawFrame; that call returns to DrawFrame only with a new chain;
\* and inside DrawFrame the flag is clear, the acquire being made on the
\* current chain.
C23_ResizeRebuildsBeforeAcquire ==
    /\ [][(frame_buffer_resized_' /\ ~frame_buffer_resized_) => pc = "run_poll"]_vars
    /\ [][(pc = "run_resize_check" /\ frame_buffer_resized_ /\ pc' # pc) =>
            (pc' = "recreate" /\ ret' = "df_wait" /\ ~frame_buffer_resized_')]_vars
    /\ [][(pc = "recreate" /\ ret = "df_wait" /\ pc' # pc) =>
            (/\ pc' \in {"df_wait", "exit_failure"}
             /\ (pc' = "df_wait" =>
                    (/\ gen' = gen + 1
                     /\ swap_chain_' = Handle("swapchain", gen + 1, 0)
                     /\ swap_chain_ \notin live'
                     /\ ~frame_buffer_resized_')))]_vars
    /\ [](InDrawFrame => ~frame_buffer_resized_)
    /\ [][(pc = "df_acquire" /\ pc' # pc) => frame'.gen = gen]_vars

\* The first iteration observed a resize: DrawFrame is about to acquire for
\* the first time, from the chain rebuilt after the resize.
C23_Witness ==
    /\ pc = "df_acquire"
    /\ gen = 1
    /\ frame.acquire = NoResult
    /\ swap_chain_ = Handle("swapchain", 1, 0)

Preferred(f) ==
    f.format = "VK_FORMAT_B8G8R8A8_SRGB" /\ f.colorSpace = "VK_COLOR_SPACE_SRGB_NONLINEAR_KHR"
ChosenSurfaceFormat ==
    [format |-> createInfo.imageFormat, colorSpace |-> createInfo.imageColorSpace]

\* C24: the surface format CreateSwapChain passes on is an entry of the
\* list the surface reported: the first B8G8R8A8_SRGB entry in the sRGB
\* nonlinear colour space when the list has one, the first entry otherwise.
C24_SurfaceFormatChoice ==
    pc = "chain_built" =>
        LET fl == platform.capabilities.formats
            hits == {k \in 1 .. Len(fl) : Preferred(fl[k])}
        IN  /\ \E k \in 1 .. Len(fl) : fl[k] = ChosenSurfaceFormat
            /\ hits # {} =>
                ChosenSurfaceFormat = fl[CHOOSE k \in hits : \A j \in hits : k <= j]
            /\ hits = {} => ChosenSurfaceFormat = fl[1]
            /\ swap_chain_image_format_ = ChosenSurfaceFormat.format

\* The list has the preferred format in another colour space first and the
\* preferred entry second: the second is chosen.
C24_Witness ==
    /\ pc = "chain_built"
    /\ platform.capabilities.formats = <<B8G8R8A8_SRGB_P3, B8G8R8A8_SRGB>>
    /\ ChosenSurfaceFormat = B8G8R8A8_SRGB

\* C25: the present mode CreateSwapChain passes on is mailbox exactly when
\* the list the surface reported holds mailbox, FIFO otherwise, and in both
\* cases a mode of the list.
C25_PresentModeChoice ==
    pc = "chain_built" =>
        LET pm == platform.capabilities.presentModes
            listed(m) == \E k \in 1 .. Len(pm) : pm[k] = m
        IN  /\ createInfo.presentMode = VK_PRESENT_MODE_MAILBOX_KHR
                <=> listed(VK_PRESENT_MODE_MAILBOX_KHR)
            /\ createInfo.presentMode # VK_PRESENT_MODE_MAILBOX_KHR
                => createInfo.presentMode = VK_PRESENT_MODE_FIFO_KHR
            /\ listed(createInfo.presentMode)

\* Mailbox is listed after FIFO and is chosen.
C25_Witness ==
    /\ pc = "chain_built"
    /\ platform.capabilities.presentModes = <<VK_PRESENT_MODE_FIFO_KHR, VK_PRESENT_MODE_MAILBOX_KHR>>
    /\ createInfo.presentMode = VK_PRESENT_MODE_MAILBOX_KHR

\* The queue family indices of the selected device.
SelectedIndices == FindQueueFamilies(platform.devices[physical_device_])

\* C26: the chain is declared concurrent across the two families exactly
\* when the graphics and the present family index of the selected device
\* differ, and exclusive exactly when they are equal.
C26_SharingMode ==
    pc = "chain_built" =>
        /\ createInfo.imageSharingMode \in {VK_SHARING_MODE_CONCURRENT, VK_SHARING_MODE_EXCLUSIVE}
        /\ createInfo.imageSharingMode = VK_SHARING_MODE_CONCURRENT
            <=> SelectedIndices.graphicsFamily # SelectedIndices.presentFamily
        /\ createInfo.imageSharingMode = VK_SHARING_MODE_CONCURRENT
            => createInfo.queueFamilyIndices =
                    <<SelectedIndices.graphicsFamily, SelectedIndices.presentFamily>>

\* The first family only presents and the second only draws: the chain is
\* concurrent across families 1 and 0.
C26_Witness ==
    /\ pc = "chain_built"
    /\ platform.devices[physical_device_].queueFamilies = <<Family(FALSE, TRUE), Family(TRUE, FALSE)>>
    /\ createInfo.imageSharingMode = VK_SHARING_MODE_CONCURRENT
    /\ createInfo.queueFamilyIndices = <<1, 0>>

\* C27: current_frame_ is a slot index; it changes only when DrawFrame
\* returns from its last line, to the next index modulo
\* MAX_FRAMES_IN_FLIGHT; a DrawFrame that issued its present and returns has
\* moved one past the slot it acquired with, whatever the present returned;
\* a DrawFrame that returns after an out-of-date acquire leaves it alone.
C27_CurrentFrame ==
    /\ [](current_frame_ \in 0 .. (MAX_FRAMES_IN_FLIGHT - 1))
    /\ [][current_frame_' # current_frame_ =>
            (/\ pc \in {"df_resize_check", "df_advance"}
             /\ pc' = "run_head"
             /\ frame.present \in {VK_SUCCESS} \cup Staleness
             /\ current_frame_' = (current_frame_ + 1) % MAX_FRAMES_IN_FLIGHT)]_vars
    /\ [][(InDrawFrame /\ pc' = "run_head" /\ frame.present # NoResult) =>
            (/\ current_frame_ = frame.slot
             /\ current_frame_' = (frame.slot + 1) % MAX_FRAMES_IN_FLIGHT)]_vars
    /\ [][(InDrawFrame /\ pc' = "run_head" /\ frame.present = NoResult) =>
            (/\ frame.acquire = VK_ERROR_OUT_OF_DATE_KHR
             /\ current_frame_' = current_frame_)]_vars
    /\ [](InDrawFrame /\ frame.acquire # NoResult /\ pc # "df_acquire"
            => current_frame_ = frame.slot)

\* DrawFrame is about to return from the last slot after a present that was
\* out of date and the rebuild it caused: the index wraps to 0.
C27_Witness ==
    /\ pc = "df_resize_check"
    /\ current_frame_ = MAX_FRAMES_IN_FLIGHT - 1
    /\ frame.present = VK_ERROR_OUT_OF_DATE_KHR
    /\ frame.rebuilds = 1

\* The framebuffer and the image of the same chain and index.
FrameBufferOf(image) == Handle("framebuffer", image[2], image[3])
ImageOf(framebuffer) == Handle("image", framebuffer[2], framebuffer[3])

\* C28: the submit of DrawFrame names the current slot and the framebuffer
\* of the acquired image, with the slot's image-available signal pending;
\* the present names the same slot and the image of the same index; the
\* graphics queue executes a submission only by consuming the image-available
\* signal of its slot, on an image the application holds or has handed to
\* the present queue, and signals the slot's render-finished semaphore and
\* fence; the present queue presents an image only by consuming the
\* render-finished signal of its slot, and never while the submission that
\* draws to that image is still pending.
C28_GpuOrder ==
    /\ [][(pc = "df_submit" /\ pc' = "df_present") =>
            (/\ gfxQueue' = Append(gfxQueue,
                    [slot |-> current_frame_,
                     framebuffer |-> FrameBufferOf(swap_chain_images_[imageIndex + 1])])
             /\ swap_chain_images_[imageIndex + 1] \in acquired
             /\ image_available_semaphores_[current_frame_] > 0)]_vars
    /\ [][(pc = "df_present" /\ pc' # pc /\ presentQueue' # presentQueue) =>
            (/\ presentQueue' = Append(presentQueue,
                    [slot |-> current_frame_, swapchain |-> swap_chain_,
                     image |-> swap_chain_images_[imageIndex + 1]])
             /\ command_buffers_[current_frame_].framebuffer =
                    FrameBufferOf(swap_chain_images_[imageIndex + 1]))]_vars
    /\ [][(gfxQueue # <<>> /\ gfxQueue' = Tail(gfxQueue)) =>
            LET e == Head(gfxQueue)
            IN  /\ image_available_semaphores_[e.slot] > 0
                /\ image_available_semaphores_'[e.slot] = image_available_semaphores_[e.slot] - 1
                /\ render_finished_semaphores_'[e.slot] = render_finished_semaphores_[e.slot] + 1
                /\ in_flight_fences_'[e.slot]
                /\ \/ ImageOf(e.framebuffer) \in acquired
                   \/ \E k \in 1 .. Len(presentQueue) :
                        presentQueue[k].image = ImageOf(e.framebuffer)]_vars
    /\ [][(presentQueue # <<>> /\ presentQueue' = Tail(presentQueue)) =>
            LET p == Head(presentQueue)
            IN  /\ render_finished_semaphores_[p.slot] > 0
                /\ render_finished_semaphores_'[p.slot] = render_finished_semaphores_[p.slot] - 1
                /\ \A k \in 1 .. Len(gfxQueue) :
                        gfxQueue[k].framebuffer # FrameBufferOf(p.image)]_vars

\* A present request waits on the present queue while the submission that
\* draws to its image is still pending on the graphics queue.
C28_Witness ==
    /\ presentQueue # <<>>
    /\ \E k \in 1 .. Len(gfxQueue) :
        /\ gfxQueue[k].framebuffer = FrameBufferOf(Head(presentQueue).image)
        /\ gfxQueue[k].slot = Head(presentQueue).slot

\* C29: a step of RecreateSwapChain destroys and creates objects of the
\* presentation chain only (swapchain, images, views, framebuffers); the
\* render pass and its format, the pipeline, its layout, the command pool,
\* the semaphores, the fences and current_frame_ are as before; a command
\* buffer is not recorded, reset or reallocated (what it recorded stays, or
\* is void because the framebuffer it names was destroyed); a rebuild that
\* returns has replaced swap_chain_, every image, view and framebuffer, has
\* set the format and the extent from the swapchain it created, and leaves
\* frame_buffer_resized_ false.
C29_RecreateFrame ==
    [][(pc = "recreate" /\ pc' # pc) =>
        (/\ \A x \in (live \ live') \cup (live' \ live) : x[1] \in ChainKinds
         /\ UNCHANGED <<render_pass_format, current_frame_, image_available_semaphores_,
                        render_finished_semaphores_, in_flight_fences_, keep_window_open_,
                        resize_requested_, physical_device_>>
         /\ \A s \in Slots :
                \/ command_buffers_'[s] = command_buffers_[s]
                \/ /\ command_buffers_'[s].state = "invalid"
                   /\ command_buffers_[s].framebuffer \notin live'
         /\ pc' # "exit_failure" =>
                /\ ~frame_buffer_resized_'
                /\ ChainOwned \cap live' = {}
                /\ ChainOwned' \cap live = {}
                /\ ChainOwned' = {x \in live' : x[1] \in ChainKinds}
                /\ swap_chain_image_format_' = createInfo'.imageFormat
                /\ swap_chain_extent_' = createInfo'.imageExtent)]_vars

\* RecreateSwapChain has returned into DrawFrame on the last frame slot: the
\* render pass is alive, a fence is still signaled, and a command buffer
\* recorded against the old chain is void.
C29_Witness ==
    /\ pc = "df_resize_check"
    /\ frame.rebuilds = 1
    /\ gen = 1
    /\ current_frame_ = MAX_FRAMES_IN_FLIGHT - 1
    /\ Handle("render_pass", 0, 0) \in live
    /\ \E s \in Slots : in_flight_fences_[s]
    /\ \E s \in Slots : command_buffers_[s].state = "invalid"

\* What CreateSwapChain derives from the capabilities the platform reports
\* during the build.
FromReport ==
    [minImageCount |-> ChooseImageCount(platform.capabilities),
     imageFormat |-> ChooseSwapSurfaceFormat(platform.capabilities.formats).format,
     imageColorSpace |-> ChooseSwapSurfaceFormat(platform.capabilities.formats).colorSpace,
     imageExtent |-> ChooseSwapExtent(platform.capabilities, platform.drawable),
     presentMode |-> ChooseSwapPresentMode(platform.capabilities.presentModes)]

\* C30: after every build and every rebuild that returns, the extent, the
\* format, the colour space, the present mode and the image count passed to
\* vkCreateSwapchainKHR, and swap_chain_extent_, swap_chain_image_format_ and
\* the number of images, are those derived from the capabilities reported
\* during that build, whatever the old chain and the window size were; and
\* a rebuild that returns holds no image, view or framebuffer that was alive
\* before it, one image, one view and one framebuffer per image of the new
\* chain.
C30_FreshDerivation ==
    /\ [](pc \in {"chain_built", "df_wait"} =>
            /\ \A f \in DOMAIN FromReport : createInfo[f] = FromReport[f]
            /\ swap_chain_extent_ = FromReport.imageExtent
            /\ swap_chain_image_format_ = FromReport.imageFormat
            /\ Len(swap_chain_images_) = FromReport.minImageCount)
    /\ [][(pc = "recreate" /\ pc' = "df_wait") =>
            /\ ChainOwned' \cap (live \cup ChainOwned) = {}
            /\ ChainOwned' \subseteq live'
            /\ Len(swap_chain_image_views_') = Len(swap_chain_images_')
            /\ Len(swap_chain_frame_buffers_') = Len(swap_chain_images_')
            /\ \A i \in 1 .. Len(swap_chain_images_') :
                    /\ swap_chain_images_'[i] = Handle("image", gen + 1, i)
                    /\ swap_chain_image_views_'[i] = Handle("view", gen + 1, i)
                    /\ swap_chain_frame_buffers_'[i] = Handle("framebuffer", gen + 1, i)]_vars

\* A rebuild has returned on a surface that leaves the extent to the
\* application, with a drawable size beyond the maximum and a window size
\* below it: the extent is the clamped drawable size, not the window size;
\* the format is not the one of the render pass and the present mode is
\* mailbox, as the surface reports now.
C30_Witness ==
    /\ pc = "df_wait"
    /\ gen = 1
    /\ platform.capabilities.currentExtent = UndefinedExtent
    /\ swap_chain_extent_ # platform.windowSize
    /\ swap_chain_extent_ # platform.drawable
    /\ swap_chain_image_format_ # render_pass_format
    /\ createInfo.presentMode = VK_PRESENT_MODE_MAILBOX_KHR
    /\ Handle("framebuffer", 1, 1) \in live

\* C31: a recording that succeeds leaves in the buffer of the current slot
\* the framebuffer at the acquired image index, alive and of the current
\* chain, with render area, viewport and scissor equal to swap_chain_extent_,
\* and swap_chain_extent_ is then the width and height vkCreateFramebuffer
\* was last called with; every executable buffer holds a render area,
\* viewport and scissor equal to the size its framebuffer was created with.
C31_RecordedExtent ==
    /\ [][(pc = "df_record" /\ pc' = "df_submit") =>
            LET cb == command_buffers_'[current_frame_]
            IN  /\ cb.framebuffer = swap_chain_frame_buffers_[imageIndex + 1]
                /\ cb.framebuffer = Handle("framebuffer", gen, imageIndex + 1)
                /\ cb.framebuffer \in live
                /\ cb.renderArea = swap_chain_extent_
                /\ cb.viewport = swap_chain_extent_
                /\ cb.scissor = swap_chain_extent_
                /\ swap_chain_extent_ = Extent(framebufferInfo.width, framebufferInfo.height)]_vars
    /\ [](\A s \in Slots :
            command_buffers_[s].state = "executable" =>
                /\ command_buffers_[s].framebuffer \in live
                /\ command_buffers_[s].renderArea =
                        Extent(framebufferInfo.width, framebufferInfo.height)
                /\ command_buffers_[s].viewport = command_buffers_[s].renderArea
                /\ command_buffers_[s].scissor = command_buffers_[s].renderArea)

\* After two rebuilds that changed the size, a buffer has been recorded for
\* an image other than the first of the third chain.
C31_Witness ==
    /\ pc = "df_submit"
    /\ gen = 2
    /\ imageIndex > 0
    /\ swap_chain_extent_ # InitialWindowSize
    /\ command_buffers_[current_frame_].state = "executable"
    /\ command_buffers_[current_frame_].framebuffer = Handle("framebuffer", 2, imageIndex + 1)
    /\ command_buffers_[current_frame_].renderArea = swap_chain_extent_

\* A device that passes IsDeviceSuitable and has geometry shaders.
Rateable(device) == IsDeviceSuitable(device) /\ device.geometryShader

\* C32: once PickPhysicalDevice has rated the enumerated devices, every
\* suitable device with geometry shaders has a positive score, of two such
\* devices of the same type the one with the larger maxImageDimension2D has
\* the larger score, and the selection does not fail when such a device is
\* enumerated.
C32_ScoreMonotone ==
    pc \in {"device_picked", "exit_failure"} =>
        \A i \in DOMAIN platform.devices :
            LET d == platform.devices[i]
            IN  Rateable(d) =>
                    /\ RateDeviceSuitability(d) > 0
                    /\ pc = "device_picked"
                    /\ \A j \in DOMAIN platform.devices :
                            LET e == platform.devices[j]
                            IN  (/\ Rateable(e)
                                 /\ e.deviceType = d.deviceType
                                 /\ d.maxImageDimension2D < e.maxImageDimension2D)
                                    => RateDeviceSuitability(d) < RateDeviceSuitability(e)

\* The places in the enumeration of the devices with the highest score.
TopScorers ==
    {i \in DOMAIN platform.devices :
        \A j \in DOMAIN platform.devices :
            RateDeviceSuitability(platform.devices[j])
                <= RateDeviceSuitability(platform.devices[i])}

\* C33: the device PickPhysicalDevice selects is, of the devices with the
\* highest score, the one enumerated last; so the selection is a function
\* of the enumerated sequence.
C33_LastOfTheBest ==
    pc = "device_picked" =>
        /\ physical_device_ \in TopScorers
        /\ \A i \in TopScorers : i <= physical_device_
        /\ RateDeviceSuitability(platform.devices[physical_device_]) > 0

\* Two different devices share the highest score and the second one is
\* selected.
C33_Witness ==
    /\ pc = "device_picked"
    /\ Len(platform.devices) = 2
    /\ platform.devices[1] # platform.devices[2]
    /\ TopScorers = {1, 2}
    /\ physical_device_ = 2

\* C34: frame_buffer_resized_ is false at every point of DrawFrame; the
\* check after the present calls RecreateSwapChain only for an out-of-date
\* or suboptimal result, and any other failure of the present ends the
\* program.
C34_NoResizeInsideDrawFrame ==
    /\ [](InDrawFrame => ~frame_buffer_resized_)
    /\ [][(pc = "df_present_check" /\ pc' # pc) =>
            /\ pc' = "recreate" <=> result \in Staleness
            /\ pc' = "exit_failure" <=> result \in OtherFailures
            /\ pc' = "df_resize_check" <=> result = VK_SUCCESS]_vars

\* The present of a frame has failed with a result that is not staleness,
\* on a chain that was rebuilt before.
C34_Witness ==
    /\ pc = "df_present_check"
    /\ result \in OtherFailures
    /\ gen = 1
    /\ ~frame_buffer_resized_

\* C35: resize_requested_ is never true; a DrawFrame call makes at most one
\* RecreateSwapChain call, after an out-of-date acquire or after the
\* present, never both; between two polls of the events Run and DrawFrame
\* together make at most two.
C35_RebuildsPerFrame ==
    /\ [](~resize_requested_)
    /\ [](frame.rebuilds <= 1)
    /\ [](frame.iteration <= 2)
    /\ [](frame.iteration <= frame.rebuilds + 1)
    /\ [][(pc # "recreate" /\ pc' = "recreate" /\ ret' # "df_wait") =>
            /\ frame.rebuilds = 0
            /\ \/ pc = "df_acquire" /\ result' = VK_ERROR_OUT_OF_DATE_KHR
               \/ pc = "df_present_check" /\ frame.acquire # VK_ERROR_OUT_OF_DATE_KHR]_vars

\* Run has rebuilt the chain for a resize and the DrawFrame that followed
\* has rebuilt it again after its present.
C35_Witness ==
    /\ pc = "df_resize_check"
    /\ frame.iteration = 2
    /\ frame.rebuilds = 1
    /\ gen = 2

\* The submissions of slot s that have not executed yet.
PendingSubmits(s) == {k \in 1 .. Len(gfxQueue) : gfxQueue[k].slot = s}

\* C36: when DrawFrame calls the acquire, the image-available semaphore of
\* the current slot carries no signal and no submission waits on it; an
\* acquire that returns success or suboptimal signals it once, and from
\* then until the signal is consumed exactly one submission of the slot
\* waits on it or DrawFrame is on its way to that submit; an out-of-date
\* acquire and the rebuild that follows leave it unsignaled.
C36_AcquireSemaphore ==
    /\ [](pc = "df_acquire" =>
            /\ image_available_semaphores_[current_frame_] = 0
            /\ PendingSubmits(current_frame_) = {})
    /\ [](pc # "exit_failure" =>
            \A s \in Slots :
                image_available_semaphores_[s] =
                    Cardinality(PendingSubmits(s))
                        + (IF pc \in {"df_record", "df_submit"} /\ current_frame_ = s
                           THEN 1 ELSE 0))
    /\ [](\A s \in Slots : image_available_semaphores_[s] <= 1)
    /\ [][(pc = "df_acquire" /\ pc' # pc) =>
            /\ result' \in {VK_SUCCESS, VK_SUBOPTIMAL_KHR} =>
                    (pc' = "df_record" /\ image_available_semaphores_'[current_frame_] = 1)
            /\ result' = VK_ERROR_OUT_OF_DATE_KHR =>
                    (pc' = "recreate" /\ image_available_semaphores_'[current_frame_] = 0)]_vars
    /\ [][(pc = "recreate" /\ pc' # pc) =>
            image_available_semaphores_' = image_available_semaphores_]_vars

\* DrawFrame is about to acquire on slot 0 again, its earlier submission
\* executed, while the submission of the other slot still waits on that
\* slot's semaphore.
C36_Witness ==
    /\ pc = "df_acquire"
    /\ current_frame_ = 0
    /\ command_buffers_[0].state = "executable"
    /\ image_available_semaphores_[1] = 1
    /\ PendingSubmits(1) # {}

\* The present requests of slot s that the presentation queue has not
\* executed yet.
PendingPresents(s) == {k \in 1 .. Len(presentQueue) : presentQueue[k].slot = s}

\* C37: when DrawFrame enqueues the submit of the current slot, no present
\* request of that slot is outstanding on the presentation queue.
C37_SubmitAfterPresent ==
    [][(pc = "df_submit" /\ pc' = "df_present") =>
        PendingPresents(current_frame_) = {}]_vars

\* C38: RecreateSwapChain is never entered between a successful acquire and
\* the present of the same DrawFrame; from the acquire to the present the
\* chain is the one the acquire ran on, imageIndex is an index of
\* swap_chain_frame_buffers_, and the image and the framebuffer at that
\* index are alive; every executable command buffer and every pending
\* submission names a live framebuffer, and every present request that is
\* enqueued names the live swapchain and a live image of it.
C38_NoRebuildInsideFrame ==
    /\ [][(pc # "recreate" /\ pc' = "recreate") =>
            pc \in {"run_resize_check", "df_acquire", "df_present_check"}]_vars
    /\ [][(pc \in {"df_record", "df_submit", "df_present"}) =>
            UNCHANGED <<gen, swap_chain_, swap_chain_images_, swap_chain_frame_buffers_,
                        imageIndex>>]_vars
    /\ [](pc \in {"df_record", "df_submit", "df_present"} =>
            /\ frame.gen = gen
            /\ imageIndex < Len(swap_chain_frame_buffers_)
            /\ swap_chain_images_[imageIndex + 1] = Handle("image", gen, imageIndex + 1)
            /\ swap_chain_images_[imageIndex + 1] \in live
            /\ swap_chain_frame_buffers_[imageIndex + 1] \in live)
    /\ [](\A s \in Slots :
            command_buffers_[s].state = "executable" => command_buffers_[s].framebuffer \in live)
    /\ [](\A k \in 1 .. Len(gfxQueue) : gfxQueue[k].framebuffer \in live)
    /\ [][(pc = "df_present" /\ pc' # pc /\ presentQueue' # presentQueue) =>
            LET p == presentQueue'[Len(presentQueue')]
            IN  /\ p.swapchain = swap_chain_
                /\ p.swapchain \in live
                /\ p.image = Handle("image", gen, imageIndex + 1)
                /\ p.image \in live]_vars

\* The third image of the third chain has been recorded and submitted and
\* is about to be presented.
C38_Witness ==
    /\ pc = "df_present"
    /\ gen = 2
    /\ imageIndex = 2
    /\ command_buffers_[current_frame_].framebuffer = Handle("framebuffer", 2, 3)

C40_OneFrameAfterQuit ==
    /\ [](pc = "run_poll" => keep_window_open_)
    /\ [][(pc = "run_poll" /\ pc' # pc) => pc' = "run_resize_check"]_vars
    /\ [][(pc = "run_resize_check" /\ pc' # pc) =>
            IF frame_buffer_resized_
            THEN pc' = "recreate" /\ ret' = "df_wait" /\ ~frame_buffer_resized_'
            ELSE pc' = "df_wait"]_vars
    /\ [][(pc = "recreate" /\ ret = "df_wait" /\ pc' # pc) =>
            pc' \in {"df_wait", "exit_failure"}]_vars
    /\ [][(~InDrawFrame /\ InDrawFrame') =>
            (pc' = "df_wait" /\ pc \in {"run_resize_check", "recreate"})]_vars
    /\ [][(InDrawFrame /\ ~InDrawFrame') => pc' \in {"run_head", "exit_failure"}]_vars
    /\ [][(pc = "run_head" /\ pc' # pc) =>
            pc' = IF keep_window_open_ THEN "run_poll" ELSE "run_wait_idle"]_vars
    /\ [](~keep_window_open_ =>
            pc \notin {"main_init", "run_poll"})

\* The polling of this iteration received the quit event, the pending resize
\* was served by a rebuild before DrawFrame, and that DrawFrame has submitted
\* and presented its frame.
C40_Witness ==
    /\ ~keep_window_open_
    /\ frame.iteration = 1
    /\ frame.rebuilds = 0
    /\ pc = "df_present_check"
    /\ frame.present # NoResult
====
